---- MODULE Spec2Model ----
(***************************************************************************)
(* A model of eagr's reflection client:                                    *)
(*   - reflection/reflection_descriptor_database.py: the bottom-up import  *)
(*     of file descriptor protos into a descriptor pool;                   *)
(*   - reflection/grpc_reflection_interface.py: the json-to-json method    *)
(*     invocation with its backoff retry;                                  *)
(*   - grpc_utils/response_translation.py: the translation of a decoded    *)
(*     message into plain dicts, lists and scalars;                        *)
(*   - reflection/grpc_reflection_interface.py: make_json_grpc_client,     *)
(*     which mounts the methods of a service onto a client.                *)
(***************************************************************************)
EXTENDS Integers, Sequences, FiniteSets, TLC

(***************************************************************************)
(* Bounds of the model.                                                    *)
(***************************************************************************)
\* number of file names the enumerated servers serve
NumNames == 3
\* most names the root list and all dependency lists of an enumerated
\* server hold together
Size == 4
\* most files one batch of responses carries beyond the requested ones
MaxExtra == 1
\* largest max_retries an invocation is built with
MaxMaxRetries == 4
\* most scalars, lists and dicts an enumerated decoded value is made of
\* (the value of an "@type" key is not counted)
MaxNodes == 4
\* most methods a service of an enumerated descriptor pool declares
MaxMethods == 2
\* most requests of one call of get_proto_bytes_for_requests, and most files
\* one response to them carries
MaxRequests == 2
MaxBlobs == 2
\* most calls of the invocations of one client
MaxInvocations == 2
\* most entries of the trailing metadata of a failed call
MaxMetadata == 2
\* how many calls of invocations run at the same time
NumCallers == 2

\* the most items a wrapped stream yields
MaxItems == 3

(***************************************************************************)
(* File names and file descriptor protos.                                  *)
(***************************************************************************)
ProtoNames == <<"proto_a", "proto_b", "proto_c", "proto_d", "proto_e", "proto_f">>

Names == {ProtoNames[k] : k \in 1..NumNames}

Range(s) == {s[k] : k \in 1..Len(s)}

\* the files of the test server of tests/reflection/utils.py
TestGraph ==
    [n \in Range(ProtoNames) |->
        CASE n = "proto_b" -> <<"proto_c", "proto_d">>
          [] n = "proto_d" -> <<"proto_e", "proto_f">>
          [] OTHER -> <<>>]

\* the root lists the tests build from
TestRoots == {<<>>, <<"proto_a">>, <<"proto_b">>, <<"proto_a", "proto_b">>}

\* the dependency lists of the first k names, holding at most budget names
\* together (cycles, self dependencies and repeated names included)
RECURSIVE DependencyLists(_, _)
DependencyLists(k, budget) ==
    IF k = 0 THEN {<<>>}
    ELSE UNION {{Append(g, d) : g \in DependencyLists(k - 1, budget - len),
                                d \in [1..len -> Names]} : len \in 0..budget}

\* the server with NumNames files whose dependency lists are those of g
SmallGraph(g) == [n \in Names |-> g[CHOOSE k \in 1..NumNames : ProtoNames[k] = n]]

VARIABLES
    graph,            \* the server's files: name -> declared dependency list
    service_names,    \* build_database_from_stub: the names of the listed services
    database,         \* what build_database_from_stub returned to its caller
    root_blobs,       \* file_descriptor_proto_bytes given to add_protos_to_descriptor_pool
    proto_names,      \* add_protos_to_descriptor_pool: names of the root protos
    next_root,        \* add_protos_to_descriptor_pool: position of its for loop
    imported_names,   \* set of already imported names
    reflected_names,  \* map name -> file descriptor proto, to be imported
    descriptor_pool,  \* the sequence of descriptor_pool.Add calls
    stack,            \* frames of import_dependencies_then_proto
    pc,               \* "list", "symbols", "start", "loop", "done" or "raised"
    error,            \* the exception that ended the run
    requests,         \* the batches of file_by_filename requests sent so far
    sent,             \* every batch of requests sent on the reflection stream so far
    delivered,        \* names of every blob received so far
    honest,           \* every request so far was answered with the requested file
    event             \* the last step taken

regVars == <<graph, service_names, database, root_blobs, proto_names, next_root, imported_names,
             reflected_names, descriptor_pool, stack, pc, error, requests, sent,
             delivered, honest, event>>

VARIABLES
    max_retries,      \* _make_json_to_json_method_invocation: its max_retries
    inv_pc,           \* "idle", "try", "sleep", "returned" or "raised"
    tries,            \* backoff's count of the attempts of this call
    calls,            \* how often method_callable was called
    outcomes,         \* what each attempt of this call ended with
    inv_error         \* the exception that left the invocation

invVars == <<max_retries, inv_pc, tries, calls, outcomes, inv_error>>

VARIABLES
    tr_input,         \* the decoded value handed to the translation
    tr_entry,         \* "none", "_get_clean_value" or "translate_message_to_dict"
    tr_result         \* what the translation returned or raised

trVars == <<tr_input, tr_entry, tr_result>>

VARIABLES
    services,         \* the services the server declares: name -> its methods
    service_name,     \* make_json_grpc_client: the service asked for
    cl_pc,            \* "start", "find", "mount", "returned" or "raised"
    service_descriptor, \* the methods of the service found in the pool
    next_method,      \* position of the for loop over the methods
    client,           \* map of method names to method invocations
    lookups,          \* how often FindServiceByName was called
    builds,           \* how often build_database_from_channel was called
    unary_calls,      \* the methods called on the channel through the client, in order
    cl_error          \* the exception that left make_json_grpc_client

clVars == <<services, service_name, cl_pc, service_descriptor, next_method, client,
            lookups, builds, unary_calls, cl_error>>

VARIABLES
    file_requests,    \* get_proto_bytes_for_requests: the names asked for
    file_descriptors_responses, \* the responses of the stream: a list of blobs each
    proto_bytes,      \* the list get_proto_bytes_for_requests returned
    fetch_pc          \* "call" or "returned"

fetchVars == <<file_requests, file_descriptors_responses, proto_bytes, fetch_pc>>

VARIABLES
    num_retries,        \* make_grpc_client: its num_retries
    exceptions_to_retry, \* make_grpc_client: the exception classes to retry
    retry_pc,           \* "idle", "try", "sleep", "returned" or "raised"
    retry_tries,        \* backoff's count of the attempts of this call
    retry_outcomes,     \* what each attempt of this call ended with
    retry_error         \* the exception that left the retrying interceptor

retryVars == <<num_retries, exceptions_to_retry, retry_pc, retry_tries, retry_outcomes,
               retry_error>>

VARIABLES
    exc,              \* the grpc.RpcError of the failed call: status code, trailing metadata
    code_to_exception_class_func, \* the translation function of the client, or "None"
    err_pc,           \* "call" or "raised"
    err_module,       \* the module whose wrapper the call went through
    err_raised        \* the exception that reached the caller

errVars == <<exc, code_to_exception_class_func, err_pc, err_module, err_raised>>

VARIABLES
    call_input,       \* per call: the input_dict the caller gave
    call_method,      \* per call: the method of the invocation called
    call_pc,          \* per call: "try", "called", "returned" or "raised"
    input_message,    \* per call: the input message of its last attempt
    call_request,     \* per call: the message its last call of method_callable sent
    call_response,    \* per call: the message its last call of method_callable returned
    call_tries,       \* per call: backoff's count of its attempts
    call_rpcs,        \* per call: how often it called method_callable
    call_result,      \* per call: the dict it returned
    call_error        \* per call: the exception it raised

callVars == <<call_input, call_method, call_pc, input_message, call_request, call_response,
              call_tries, call_rpcs, call_result, call_error>>

VARIABLES
    stream,           \* the wrapped stream: the items it yields, how it ends, its error
    gen_func,         \* the code_to_exception_class_func of the wrapper
    gen_pos,          \* how many items the wrapped stream has yielded
    gen_yielded,      \* the items the wrapper has yielded to its consumer, in order
    gen_pc,           \* "iterating", "exhausted", "closed" or "raised"
    gen_raised        \* the exception that left the wrapper

genVars == <<stream, gen_func, gen_pos, gen_yielded, gen_pc, gen_raised>>

VARIABLES
    chain_func,       \* make_grpc_client: its code_to_exception_class_func, or "None"
    chain_pc,         \* the interceptor in control: "call", "timer", "translator",
                      \* "retrier", "counter", then "returned" or "raised"
    chain_exc,        \* the grpc.RpcError the channel ended the call with, if any
    chain_outcome,    \* what the continuation handed to the interceptor in control
    underlying_calls, \* how often the call went out on the channel
    histogram_count,  \* clientside_grpc_endpoint_count of the method
    error_labels,     \* the exception labels clientside_grpc_endpoint_error counted, in order
    chain_raised      \* the exception that reached the caller of the stub

chainVars == <<chain_func, chain_pc, chain_exc, chain_outcome, underlying_calls,
               histogram_count, error_labels, chain_raised>>

vars == <<regVars, invVars, trVars, clVars, fetchVars, retryVars, errVars, callVars, genVars, chainVars>>

\* the variables an action of one component leaves alone
notReg == <<invVars, trVars, clVars, fetchVars, retryVars, errVars, callVars, genVars, chainVars>>

notInv == <<regVars, trVars, clVars, fetchVars, retryVars, errVars, callVars, genVars, chainVars>>

notTr == <<regVars, invVars, clVars, fetchVars, retryVars, errVars, callVars, genVars, chainVars>>

notCl == <<regVars, invVars, trVars, fetchVars, retryVars, errVars, callVars, genVars, chainVars>>

notFetch == <<regVars, invVars, trVars, clVars, retryVars, errVars, callVars, genVars, chainVars>>

notRetry == <<regVars, invVars, trVars, clVars, fetchVars, errVars, callVars, genVars, chainVars>>

notErr == <<regVars, invVars, trVars, clVars, fetchVars, retryVars, callVars, genVars, chainVars>>

notCall == <<regVars, invVars, trVars, clVars, fetchVars, retryVars, errVars, genVars, chainVars>>

notGen == <<regVars, invVars, trVars, clVars, fetchVars, retryVars, errVars, callVars, chainVars>>

notChain == <<regVars, invVars, trVars, clVars, fetchVars, retryVars, errVars, callVars, genVars>>

\* descriptor_pb2.FileDescriptorProto of the file `name` of the server: its
\* name and its dependency list (a name stands for one file throughout a run)
Proto(name) == [name |-> name, dependency |-> graph[name]]

Files == DOMAIN graph

NoError == [kind |-> "none", name |-> ""]

\* nothing was returned to the caller of build_database_from_stub
NoDatabase == [returned |-> FALSE, pool |-> <<>>]

\* the status codes of the grpc.RpcError a failing reflection stream raises
StreamErrors == {"UNAVAILABLE", "DEADLINE_EXCEEDED"}

\* the services the enumerated servers list, in the order they list them
ServiceNames == <<"service_a", "service_b", "service_c", "service_d", "service_e", "service_f">>

RECURSIVE DependencyCount(_, _)

\* how many names the dependency lists of the first k files hold together
DependencyCount(g, k) ==
    IF k = 0 THEN 0 ELSE Len(g[ProtoNames[k]]) + DependencyCount(g, k - 1)

Top == stack[Len(stack)]

Pop == SubSeq(stack, 1, Len(stack) - 1)

ReplaceTop(f) == [stack EXCEPT ![Len(stack)] = f]

Frame(name) == [proto_name |-> name, dependencies |-> <<>>, pc |-> "entry", i |-> 0]

\* dict update reflected_names[proto.name] = proto, for each blob in order
RECURSIVE Reflect(_, _)
Reflect(reflected, blobs) ==
    IF blobs = <<>> THEN reflected
    ELSE LET p == Head(blobs)
             r == [n \in DOMAIN reflected \cup {p.name} |->
                      IF n = p.name THEN p ELSE reflected[n]]
         IN Reflect(r, Tail(blobs))

\* del reflected_names[name]
Delete(reflected, name) == [n \in DOMAIN reflected \ {name} |-> reflected[n]]

RECURSIVE Flatten(_)
Flatten(responses) ==
    IF responses = <<>> THEN <<>>
    ELSE Head(responses) \o Flatten(Tail(responses))

get_proto_bytes_for_requests_FirstOfEach(responses) ==
    Flatten([k \in 1..Len(responses) |->
                IF responses[k] = <<>> THEN <<>> ELSE <<Head(responses[k])>>])

\* the flat list of the blobs of all responses
get_proto_bytes_for_requests(responses) == Flatten(responses)

BlobNames(blobs) == {blobs[k].name : k \in 1..Len(blobs)}

(***************************************************************************)
(* import_dependencies_then_proto                                          *)
(***************************************************************************)
IsImported_Never(proto_name, imported) == FALSE

IsImported_OrCalled(proto_name, imported) ==
    \/ proto_name \in imported
    \/ \E k \in 1..(Len(stack) - 1) : stack[k].proto_name = proto_name

IsImported(proto_name, imported) == proto_name \in imported

IsReflected(proto_name, reflected) == proto_name \in DOMAIN reflected

NotYetReflectedDependencies_IgnoreReflected(dependencies, imported, reflected) ==
    SelectSeq(dependencies, LAMBDA d : d \notin imported)

NotYetReflectedDependencies(dependencies, imported, reflected) ==
    SelectSeq(dependencies,
              LAMBDA d : (d \notin imported) /\ (d \notin DOMAIN reflected))

DependenciesLeft_Never(i, dependencies) == FALSE

DependenciesLeft_SkipLast(i, dependencies) == i < Len(dependencies)

DependenciesLeft(i, dependencies) == i <= Len(dependencies)

NextDependency_Reversed(i, dependencies) == dependencies[Len(dependencies) - i + 1]

NextDependency(i, dependencies) == dependencies[i]

\* the names of S as a sequence, in the order of ProtoNames
SeqOf(S) == SelectSeq(ProtoNames, LAMBDA n : n \in S)

\* The responses of the server to one batch of file_by_filename requests, one
\* response per request: a request for a name in `answered` gets the file, any
\* other an error response without files; the first answered request also
\* gets the files `extra`, which were not asked for.
Responses(missing, answered, extra) ==
    [k \in 1..Len(missing) |->
        IF missing[k] \notin answered THEN <<>>
        ELSE IF \A j \in 1..(k - 1) : missing[j] \notin answered
             THEN <<Proto(missing[k])>> \o [j \in 1..Len(SeqOf(extra)) |-> Proto(SeqOf(extra)[j])]
             ELSE <<Proto(missing[k])>>]

\* the files a batch may carry beyond the requested ones: at most MaxExtra
ExtraFiles(answered) ==
    IF answered = {} THEN {{}}
    ELSE {E \in SUBSET (Files \ answered) : Cardinality(E) <= MaxExtra}

\* the request for the list of the services of the server
GET_SERVICES_REQUEST == [kind |-> "list_services", arg |-> "services"]

FileContainingSymbolRequests_Reversed(names) ==
    [k \in 1..Len(names) |->
        [kind |-> "file_containing_symbol", arg |-> names[Len(names) - k + 1]]]

\* the generator of one file_containing_symbol request per service name
FileContainingSymbolRequests(names) ==
    [k \in 1..Len(names) |-> [kind |-> "file_containing_symbol", arg |-> names[k]]]

FileByFilenameRequests_Reversed(not_yet_reflected_dependencies) ==
    [k \in 1..Len(not_yet_reflected_dependencies) |->
        [kind |-> "file_by_filename",
         arg |-> not_yet_reflected_dependencies[Len(not_yet_reflected_dependencies) - k + 1]]]

\* the generator of one file_by_filename request per missing dependency
FileByFilenameRequests(not_yet_reflected_dependencies) ==
    [k \in 1..Len(not_yet_reflected_dependencies) |->
        [kind |-> "file_by_filename", arg |-> not_yet_reflected_dependencies[k]]]

InImport == pc = "loop" /\ stack /= <<>>

ReturnIfImported ==
    /\ InImport
    /\ Top.pc = "entry"
    /\ IsImported(Top.proto_name, imported_names)
    /\ stack' = Pop
    /\ event' = [op |-> "return", name |-> Top.proto_name]
    /\ UNCHANGED <<graph, service_names, database, root_blobs, proto_names, next_root, imported_names,
                   reflected_names, descriptor_pool, pc, error, requests, sent, delivered, honest>>
    /\ UNCHANGED notReg

RaiseNotReflected_Skip ==
    /\ InImport
    /\ Top.pc = "entry"
    /\ ~IsImported(Top.proto_name, imported_names)
    /\ ~IsReflected(Top.proto_name, reflected_names)
    /\ stack' = Pop
    /\ event' = [op |-> "return", name |-> Top.proto_name]
    /\ UNCHANGED <<graph, service_names, database, root_blobs, proto_names, next_root, imported_names,
                   reflected_names, descriptor_pool, pc, error, requests, sent, delivered, honest>>
    /\ UNCHANGED notReg

RaiseNotReflected ==
    /\ InImport
    /\ Top.pc = "entry"
    /\ ~IsImported(Top.proto_name, imported_names)
    /\ ~IsReflected(Top.proto_name, reflected_names)
    /\ pc' = "raised"
    /\ error' = [kind |-> "RuntimeError", name |-> Top.proto_name]
    /\ event' = [op |-> "raise", name |-> Top.proto_name]
    /\ UNCHANGED <<graph, service_names, database, root_blobs, proto_names, next_root, imported_names,
                   reflected_names, descriptor_pool, stack, requests, sent, delivered, honest>>
    /\ UNCHANGED notReg

NothingToReflect ==
    /\ InImport
    /\ Top.pc = "entry"
    /\ ~IsImported(Top.proto_name, imported_names)
    /\ IsReflected(Top.proto_name, reflected_names)
    /\ LET dependencies == reflected_names[Top.proto_name].dependency
       IN /\ NotYetReflectedDependencies(dependencies, imported_names, reflected_names) = <<>>
          /\ stack' = ReplaceTop([Top EXCEPT !.dependencies = dependencies,
                                             !.pc = "deps", !.i = 1])
    /\ event' = [op |-> "enter", name |-> Top.proto_name]
    /\ UNCHANGED <<graph, service_names, database, root_blobs, proto_names, next_root, imported_names,
                   reflected_names, descriptor_pool, pc, error, requests, sent, delivered, honest>>
    /\ UNCHANGED notReg

ReflectDependencies ==
    /\ InImport
    /\ Top.pc = "entry"
    /\ ~IsImported(Top.proto_name, imported_names)
    /\ IsReflected(Top.proto_name, reflected_names)
    /\ LET dependencies == reflected_names[Top.proto_name].dependency
           missing == NotYetReflectedDependencies(dependencies, imported_names,
                                                  reflected_names)
       IN /\ missing /= <<>>
          /\ \E answered \in SUBSET Range(missing) :
             \E extra \in ExtraFiles(answered) :
                LET file_descriptor_proto_bytes ==
                        get_proto_bytes_for_requests(Responses(missing, answered, extra))
                IN /\ reflected_names' = Reflect(reflected_names, file_descriptor_proto_bytes)
                   /\ delivered' = delivered \cup BlobNames(file_descriptor_proto_bytes)
                   /\ honest' = (honest /\ answered = Range(missing))
          /\ requests' = Append(requests, missing)
          /\ sent' = Append(sent, FileByFilenameRequests(missing))
          /\ stack' = ReplaceTop([Top EXCEPT !.dependencies = dependencies,
                                             !.pc = "deps", !.i = 1])
    /\ event' = [op |-> "fetch", name |-> Top.proto_name]
    /\ UNCHANGED <<graph, service_names, database, root_blobs, proto_names, next_root, imported_names,
                   descriptor_pool, pc, error>>
    /\ UNCHANGED notReg

ReflectDependenciesFails_ReturnsPartial ==
    /\ InImport
    /\ Top.pc = "entry"
    /\ ~IsImported(Top.proto_name, imported_names)
    /\ IsReflected(Top.proto_name, reflected_names)
    /\ LET dependencies == reflected_names[Top.proto_name].dependency
           missing == NotYetReflectedDependencies(dependencies, imported_names,
                                                  reflected_names)
       IN /\ missing /= <<>>
          /\ requests' = Append(requests, missing)
          /\ sent' = Append(sent, FileByFilenameRequests(missing))
    /\ \E code \in StreamErrors :
          /\ pc' = "done"
          /\ error' = [kind |-> "RpcError", name |-> code]
          /\ event' = [op |-> "stream_error", name |-> code]
    /\ database' = [returned |-> TRUE, pool |-> descriptor_pool]
    /\ UNCHANGED <<graph, service_names, root_blobs, proto_names, next_root, imported_names,
                   reflected_names, descriptor_pool, stack, delivered, honest>>
    /\ UNCHANGED notReg

\* the reflection stream fails: the grpc.RpcError leaves get_proto_bytes_for_requests
ReflectDependenciesFails ==
    /\ InImport
    /\ Top.pc = "entry"
    /\ ~IsImported(Top.proto_name, imported_names)
    /\ IsReflected(Top.proto_name, reflected_names)
    /\ LET dependencies == reflected_names[Top.proto_name].dependency
           missing == NotYetReflectedDependencies(dependencies, imported_names,
                                                  reflected_names)
       IN /\ missing /= <<>>
          /\ requests' = Append(requests, missing)
          /\ sent' = Append(sent, FileByFilenameRequests(missing))
    /\ \E code \in StreamErrors :
          /\ pc' = "raised"
          /\ error' = [kind |-> "RpcError", name |-> code]
          /\ event' = [op |-> "stream_error", name |-> code]
    /\ UNCHANGED <<graph, service_names, database, root_blobs, proto_names, next_root, imported_names,
                   reflected_names, descriptor_pool, stack, delivered, honest>>
    /\ UNCHANGED notReg

\* the depth at which the interpreter raises RecursionError: the calls of an
\* acyclic graph of the model never nest deeper than this
RecursionLimit == NumNames + 1

RecurseDependency_SameDependency ==
    /\ InImport
    /\ Top.pc = "deps"
    /\ DependenciesLeft(Top.i, Top.dependencies)
    /\ Len(stack) < RecursionLimit
    /\ stack' = Append(stack, Frame(NextDependency(Top.i, Top.dependencies)))
    /\ event' = [op |-> "call", name |-> NextDependency(Top.i, Top.dependencies)]
    /\ UNCHANGED <<graph, service_names, database, root_blobs, proto_names, next_root, imported_names,
                   reflected_names, descriptor_pool, pc, error, requests, sent, delivered, honest>>
    /\ UNCHANGED notReg

RecurseDependency ==
    /\ InImport
    /\ Top.pc = "deps"
    /\ DependenciesLeft(Top.i, Top.dependencies)
    /\ Len(stack) < RecursionLimit
    /\ stack' = Append(ReplaceTop([Top EXCEPT !.i = Top.i + 1]),
                       Frame(NextDependency(Top.i, Top.dependencies)))
    /\ event' = [op |-> "call", name |-> NextDependency(Top.i, Top.dependencies)]
    /\ UNCHANGED <<graph, service_names, database, root_blobs, proto_names, next_root, imported_names,
                   reflected_names, descriptor_pool, pc, error, requests, sent, delivered, honest>>
    /\ UNCHANGED notReg

RecursionOverflow ==
    /\ InImport
    /\ Top.pc = "deps"
    /\ DependenciesLeft(Top.i, Top.dependencies)
    /\ Len(stack) >= RecursionLimit
    /\ pc' = "raised"
    /\ error' = [kind |-> "RecursionError", name |-> NextDependency(Top.i, Top.dependencies)]
    /\ event' = [op |-> "raise", name |-> NextDependency(Top.i, Top.dependencies)]
    /\ UNCHANGED <<graph, service_names, database, root_blobs, proto_names, next_root, imported_names,
                   reflected_names, descriptor_pool, stack, requests, sent, delivered, honest>>
    /\ UNCHANGED notReg

ImportProto_EverythingReflected ==
    /\ InImport
    /\ Top.pc = "deps"
    /\ ~DependenciesLeft(Top.i, Top.dependencies)
    /\ Top.proto_name \in DOMAIN reflected_names
    /\ descriptor_pool' = descriptor_pool \o
            [k \in 1..Len(SeqOf(DOMAIN reflected_names)) |->
                reflected_names[SeqOf(DOMAIN reflected_names)[k]]]
    /\ imported_names' = imported_names \cup DOMAIN reflected_names
    /\ reflected_names' = <<>>
    /\ stack' = Pop
    /\ event' = [op |-> "import", name |-> Top.proto_name]
    /\ UNCHANGED <<pc, error>>
    /\ UNCHANGED <<graph, service_names, database, root_blobs, proto_names, next_root, requests, sent, delivered, honest>>
    /\ UNCHANGED notReg

ImportProto ==
    /\ InImport
    /\ Top.pc = "deps"
    /\ ~DependenciesLeft(Top.i, Top.dependencies)
    /\ IF Top.proto_name \in DOMAIN reflected_names
       THEN /\ descriptor_pool' = Append(descriptor_pool, reflected_names[Top.proto_name])
            /\ imported_names' = imported_names \cup {Top.proto_name}
            /\ reflected_names' = Delete(reflected_names, Top.proto_name)
            /\ stack' = Pop
            /\ event' = [op |-> "import", name |-> Top.proto_name]
            /\ UNCHANGED <<pc, error>>
       ELSE /\ pc' = "raised"
            /\ error' = [kind |-> "KeyError", name |-> Top.proto_name]
            /\ event' = [op |-> "raise", name |-> Top.proto_name]
            /\ UNCHANGED <<descriptor_pool, imported_names, reflected_names, stack>>
    /\ UNCHANGED <<graph, service_names, database, root_blobs, proto_names, next_root, requests, sent, delivered, honest>>
    /\ UNCHANGED notReg

(***************************************************************************)
(* build_database_from_stub, up to its call of                             *)
(* add_protos_to_descriptor_pool.                                          *)
(***************************************************************************)
\* the server answers the list_services request with at most as many
\* services as the bound on the root list leaves
ListServices ==
    /\ pc = "list"
    /\ \E n \in 0..Size :
          /\ IF graph = TestGraph
             THEN \E roots \in TestRoots : Len(roots) = n
             ELSE n <= Size - DependencyCount(graph, NumNames)
          /\ service_names' = SubSeq(ServiceNames, 1, n)
    /\ pc' = "symbols"
    /\ event' = [op |-> "list", name |-> ""]
    /\ sent' = Append(sent, <<GET_SERVICES_REQUEST>>)
    /\ UNCHANGED <<graph, database, root_blobs, proto_names, next_root, imported_names,
                   reflected_names, descriptor_pool, stack, error, requests,
                   delivered, honest>>
    /\ UNCHANGED notReg

\* the reflection stream fails on the list_services request
ListServicesFails ==
    /\ pc = "list"
    /\ \E code \in StreamErrors :
          /\ pc' = "raised"
          /\ error' = [kind |-> "RpcError", name |-> code]
          /\ event' = [op |-> "stream_error", name |-> code]
    /\ sent' = Append(sent, <<GET_SERVICES_REQUEST>>)
    /\ UNCHANGED <<graph, service_names, database, root_blobs, proto_names, next_root,
                   imported_names, reflected_names, descriptor_pool, stack, requests,
                   delivered, honest>>
    /\ UNCHANGED notReg

\* one file_containing_symbol request per listed service; the server answers
\* each with the file that declares the service
FileContainingSymbol ==
    /\ pc = "symbols"
    /\ \E roots \in [1..Len(service_names) -> Files] :
          /\ graph = TestGraph => roots \in TestRoots
          /\ root_blobs' = get_proto_bytes_for_requests(
                               [k \in 1..Len(roots) |-> <<Proto(roots[k])>>])
    /\ pc' = "start"
    /\ event' = [op |-> "symbols", name |-> ""]
    /\ sent' = Append(sent, FileContainingSymbolRequests(service_names))
    /\ UNCHANGED <<graph, service_names, database, proto_names, next_root, imported_names,
                   reflected_names, descriptor_pool, stack, error, requests,
                   delivered, honest>>
    /\ UNCHANGED notReg

FileContainingSymbolFails_Retried ==
    /\ pc = "symbols"
    /\ \E code \in StreamErrors :
          /\ error' = [kind |-> "RpcError", name |-> code]
          /\ event' = [op |-> "stream_error", name |-> code]
    /\ sent' = Append(sent, FileContainingSymbolRequests(service_names))
    /\ UNCHANGED <<graph, service_names, database, root_blobs, proto_names, next_root,
                   imported_names, reflected_names, descriptor_pool, stack, pc, requests,
                   delivered, honest>>
    /\ UNCHANGED notReg

\* the reflection stream fails on the file_containing_symbol requests
FileContainingSymbolFails ==
    /\ pc = "symbols"
    /\ \E code \in StreamErrors :
          /\ pc' = "raised"
          /\ error' = [kind |-> "RpcError", name |-> code]
          /\ event' = [op |-> "stream_error", name |-> code]
    /\ sent' = Append(sent, FileContainingSymbolRequests(service_names))
    /\ UNCHANGED <<graph, service_names, database, root_blobs, proto_names, next_root,
                   imported_names, reflected_names, descriptor_pool, stack, requests,
                   delivered, honest>>
    /\ UNCHANGED notReg

(***************************************************************************)
(* add_protos_to_descriptor_pool                                           *)
(***************************************************************************)
LoadRoots ==
    /\ pc = "start"
    /\ proto_names' = [k \in 1..Len(root_blobs) |-> root_blobs[k].name]
    /\ reflected_names' = Reflect(reflected_names, root_blobs)
    /\ delivered' = delivered \cup BlobNames(root_blobs)
    /\ pc' = "loop"
    /\ event' = [op |-> "load", name |-> ""]
    /\ UNCHANGED <<graph, service_names, database, root_blobs, next_root, imported_names, descriptor_pool,
                   stack, error, requests, sent, honest>>
    /\ UNCHANGED notReg

CallRoot ==
    /\ pc = "loop"
    /\ stack = <<>>
    /\ next_root <= Len(proto_names)
    /\ stack' = <<Frame(proto_names[next_root])>>
    /\ next_root' = next_root + 1
    /\ event' = [op |-> "call", name |-> proto_names[next_root]]
    /\ UNCHANGED <<graph, service_names, database, root_blobs, proto_names, imported_names, reflected_names,
                   descriptor_pool, pc, error, requests, sent, delivered, honest>>
    /\ UNCHANGED notReg

Finish ==
    /\ pc = "loop"
    /\ stack = <<>>
    /\ next_root > Len(proto_names)
    /\ pc' = "done"
    /\ database' = [returned |-> TRUE, pool |-> descriptor_pool]
    /\ event' = [op |-> "finish", name |-> ""]
    /\ UNCHANGED <<graph, service_names, root_blobs, proto_names, next_root, imported_names,
                   reflected_names, descriptor_pool, stack, error, requests, sent, delivered, honest>>
    /\ UNCHANGED notReg

RegInit ==
    /\ \/ \E g \in DependencyLists(NumNames, Size) : graph = SmallGraph(g)
       \/ graph = TestGraph
    /\ service_names = <<>>
    /\ database = NoDatabase
    /\ root_blobs = <<>>
    /\ proto_names = <<>>
    /\ next_root = 1
    /\ imported_names = {}
    /\ reflected_names = <<>>
    /\ descriptor_pool = <<>>
    /\ stack = <<>>
    /\ pc = "list"
    /\ error = NoError
    /\ requests = <<>>
    /\ sent = <<>>
    /\ delivered = {}
    /\ honest = TRUE
    /\ event = [op |-> "init", name |-> ""]

RegNext ==
    \/ ListServices
    \/ ListServicesFails
    \/ FileContainingSymbol
    \/ FileContainingSymbolFails
    \/ LoadRoots
    \/ CallRoot
    \/ Finish
    \/ ReturnIfImported
    \/ RaiseNotReflected
    \/ NothingToReflect
    \/ ReflectDependencies
    \/ ReflectDependenciesFails
    \/ RecurseDependency
    \/ RecursionOverflow
    \/ ImportProto

(***************************************************************************)
(* _make_json_to_json_method_invocation: one call of the invocation it     *)
(* returns, under backoff.on_exception(backoff.expo, (grpc.RpcError,),     *)
(* max_retries).                                                           *)
(***************************************************************************)
MAX_RETRIES == 3

StatusCodes == {"DEADLINE_EXCEEDED", "UNAVAILABLE", "INVALID_ARGUMENT", "NOT_FOUND"}

RpcError(code) == [type |-> "RpcError", code |-> code]

\* json_format.ParseError of ParseDict, AssertionError of the translation
OtherError(type) == [type |-> type, code |-> ""]

Returned == [type |-> "none", code |-> ""]

IsRetried_Any(e) == TRUE

\* the exceptions the decorator retries on: (grpc.RpcError,)
IsRetried(e) == e.type = "RpcError"

\* backoff's third positional parameter is max_tries, the maximum number of
\* attempts: the decorator gives up when the count of attempts equals it
MaxTriesExceeded(n, max_tries) == n = max_tries

\* json_format.ParseDict rejects input_dict, on the first attempt and on every
\* later one: the input is the same, and the exception is no RpcError
ParseDictRaises ==
    /\ inv_pc = "try"
    /\ \A k \in 1..Len(outcomes) : outcomes[k].type = "ParseError"
    /\ tries' = tries + 1
    /\ outcomes' = Append(outcomes, OtherError("ParseError"))
    /\ IF IsRetried(OtherError("ParseError")) /\ ~MaxTriesExceeded(tries + 1, max_retries)
       THEN inv_pc' = "sleep" /\ inv_error' = inv_error
       ELSE inv_pc' = "raised" /\ inv_error' = OtherError("ParseError")
    /\ UNCHANGED <<max_retries, calls>>
    /\ UNCHANGED notInv

\* method_callable raises a grpc.RpcError
MethodCallableRaises ==
    /\ inv_pc = "try"
    /\ \E code \in StatusCodes :
          /\ outcomes' = Append(outcomes, RpcError(code))
          /\ IF IsRetried(RpcError(code)) /\ ~MaxTriesExceeded(tries + 1, max_retries)
             THEN inv_pc' = "sleep" /\ inv_error' = inv_error
             ELSE inv_pc' = "raised" /\ inv_error' = RpcError(code)
    /\ tries' = tries + 1
    /\ calls' = calls + 1
    /\ UNCHANGED max_retries
    /\ UNCHANGED notInv

\* the response cannot be translated: the exception is no RpcError
TranslationRaises ==
    /\ inv_pc = "try"
    /\ tries' = tries + 1
    /\ calls' = calls + 1
    /\ outcomes' = Append(outcomes, OtherError("AssertionError"))
    /\ IF IsRetried(OtherError("AssertionError")) /\ ~MaxTriesExceeded(tries + 1, max_retries)
       THEN inv_pc' = "sleep" /\ inv_error' = inv_error
       ELSE inv_pc' = "raised" /\ inv_error' = OtherError("AssertionError")
    /\ UNCHANGED max_retries
    /\ UNCHANGED notInv

\* the attempt returns the translated response
InvocationReturns ==
    /\ inv_pc = "try"
    /\ tries' = tries + 1
    /\ calls' = calls + 1
    /\ outcomes' = Append(outcomes, Returned)
    /\ inv_pc' = "returned"
    /\ UNCHANGED <<max_retries, inv_error>>
    /\ UNCHANGED notInv

\* time.sleep(seconds) between two attempts
Sleep ==
    /\ inv_pc = "sleep"
    /\ inv_pc' = "try"
    /\ UNCHANGED <<max_retries, tries, calls, outcomes, inv_error>>
    /\ UNCHANGED notInv

\* the caller calls the invocation
Invoke ==
    /\ inv_pc = "idle"
    /\ inv_pc' = "try"
    /\ UNCHANGED <<max_retries, tries, calls, outcomes, inv_error>>
    /\ UNCHANGED notInv

InvInit ==
    /\ max_retries \in 1..MaxMaxRetries
    /\ inv_pc = "idle"
    /\ tries = 0
    /\ calls = 0
    /\ outcomes = <<>>
    /\ inv_error = Returned

InvNext ==
    \/ Invoke
    \/ ParseDictRaises
    \/ MethodCallableRaises
    \/ TranslationRaises
    \/ InvocationReturns
    \/ Sleep

\* no invocation is built or called
InvIdle ==
    /\ max_retries = MAX_RETRIES
    /\ inv_pc = "idle"
    /\ tries = 0
    /\ calls = 0
    /\ outcomes = <<>>
    /\ inv_error = Returned

\* nothing is imported
RegIdle ==
    /\ graph = TestGraph
    /\ service_names = <<>>
    /\ database = NoDatabase
    /\ root_blobs = <<>>
    /\ proto_names = <<>>
    /\ next_root = 1
    /\ imported_names = {}
    /\ reflected_names = <<>>
    /\ descriptor_pool = <<>>
    /\ stack = <<>>
    /\ pc = "list"
    /\ error = NoError
    /\ requests = <<>>
    /\ sent = <<>>
    /\ delivered = {}
    /\ honest = TRUE
    /\ event = [op |-> "init", name |-> ""]

(***************************************************************************)
(* response_translation.py.  A decoded value is a record: t is its Python  *)
(* type, s the payload of a scalar, v the elements of a list or the items  *)
(* of a dict, in order.                                                    *)
(***************************************************************************)
POD_TYPES_AndNone == {"int", "float", "str", "NoneType"}

POD_TYPES == {"int", "float", "str"}

TYPE_KEY == "@type"

TYPE_KEY_SET == {TYPE_KEY}

Scalar(t, s) == [t |-> t, s |-> s, v |-> <<>>]

\* None: a value of no type the translation accepts
None == [t |-> "NoneType", s |-> "None", v |-> <<>>]

List(elements) == [t |-> "list", s |-> "", v |-> elements]

Item(key, value) == [key |-> key, value |-> value]

Dict(items) == [t |-> "dict", s |-> "", v |-> items]

\* an exception raised by the translation
Raise(type) == [t |-> type, s |-> "raised", v |-> <<>>]

IsRaised(r) == r.s = "raised"

IsInstance_NoSubclass(value, types) == value.t \in types

\* isinstance(value, types): bool is a subclass of int

IsInstance(value, types) ==
    \/ value.t \in types
    \/ value.t = "bool" /\ "int" \in types

\* dct.keys() and dct[key]
Keys(dct) == {dct.v[i].key : i \in 1..Len(dct.v)}

Get(dct, key) == dct.v[CHOOSE i \in 1..Len(dct.v) : dct.v[i].key = key].value

\* the first exception a comprehension over the values xs runs into
FirstRaised(xs) ==
    xs[CHOOSE i \in 1..Len(xs) : IsRaised(xs[i]) /\ \A j \in 1..(i - 1) : ~IsRaised(xs[j])]

RECURSIVE get_clean_value(_), get_clean_dict_value(_)
RECURSIVE project_dict_without_type(_), get_clean_list_value(_)

\* _get_clean_value
get_clean_value(value) ==
    IF IsInstance(value, {"dict"}) THEN get_clean_dict_value(value)
    ELSE IF IsInstance(value, {"list"}) THEN get_clean_list_value(value)
    ELSE IF IsInstance(value, POD_TYPES) THEN value
    ELSE Raise("AssertionError")

IsFlatAnyType_Never(keys) == FALSE

IsFlatAnyType_AnyTagged(keys) == TYPE_KEY \in keys

IsFlatAnyType_AtLeastTwo(keys) == TYPE_KEY \in keys /\ Cardinality(keys) >= 2

\* is_flat_any_type of _get_clean_dict_value
IsFlatAnyType(keys) == TYPE_KEY \in keys /\ Cardinality(keys) = 2

get_clean_dict_value_PayloadAsIs(dct) ==
    LET keys == Keys(dct)
        remaining_keys == keys \ TYPE_KEY_SET
    IN  IF ~IsFlatAnyType(keys) THEN project_dict_without_type(dct)
        ELSE IF Cardinality(remaining_keys) /= 1 THEN Raise("ValueError")
        ELSE Get(dct, CHOOSE key \in remaining_keys : TRUE)

\* _get_clean_dict_value
get_clean_dict_value(dct) ==
    LET keys == Keys(dct)
        remaining_keys == keys \ TYPE_KEY_SET
    IN  IF ~IsFlatAnyType(keys) THEN project_dict_without_type(dct)
        ELSE IF Cardinality(remaining_keys) /= 1 THEN Raise("ValueError")
        ELSE get_clean_value(Get(dct, CHOOSE key \in remaining_keys : TRUE))

project_dict_without_type_KeepsType(dct) ==
    LET values == [i \in 1..Len(dct.v) |-> get_clean_value(dct.v[i].value)]
    IN  IF \E i \in 1..Len(dct.v) : IsRaised(values[i]) THEN FirstRaised(values)
        ELSE Dict([i \in 1..Len(dct.v) |-> Item(dct.v[i].key, values[i])])

\* _project_dict_without_type
project_dict_without_type(dct) ==
    LET items == SelectSeq(dct.v, LAMBDA item : item.key /= TYPE_KEY)
        values == [i \in 1..Len(items) |-> get_clean_value(items[i].value)]
    IN  IF \E i \in 1..Len(items) : IsRaised(values[i]) THEN FirstRaised(values)
        ELSE Dict([i \in 1..Len(items) |-> Item(items[i].key, values[i])])

get_clean_list_value_Reversed(iterable) ==
    LET n == Len(iterable.v)
        values == [i \in 1..n |-> get_clean_value(iterable.v[n + 1 - i])]
    IN  IF \E i \in 1..n : IsRaised(values[i]) THEN FirstRaised(values)
        ELSE List(values)

\* _get_clean_list_value
get_clean_list_value(iterable) ==
    LET values == [i \in 1..Len(iterable.v) |-> get_clean_value(iterable.v[i])]
    IN  IF \E i \in 1..Len(iterable.v) : IsRaised(values[i]) THEN FirstRaised(values)
        ELSE List(values)

\* translate_message_to_dict, on the dict MessageToDict makes of the message
translate_message_to_dict(raw_response) == get_clean_dict_value(raw_response)

(***************************************************************************)
(* The decoded values the translation is run on: every value of at most    *)
(* MaxNodes scalars, lists and dicts, written node by node, a node before  *)
(* its elements.                                                           *)
(***************************************************************************)
Leaves == {Scalar("bool", "True"), Scalar("int", "1"), Scalar("str", "abc"), None}

\* the keys of the enumerated dicts besides "@type", in the order of the items
OtherKeys == <<"value", "x">>

\* the sequences of OtherKeys that keep its order
KeyLists == {<<>>, <<OtherKeys[1]>>, <<OtherKeys[2]>>, OtherKeys}

\* a dict has no "@type" item, or one with a type URL or with nothing sensible
TypeItems ==
    {<<>>, <<Item(TYPE_KEY, Scalar("str", "type.googleapis.com/T"))>>, <<Item(TYPE_KEY, None)>>}

\* a node: a scalar, a list of n elements, or a dict of the items `type` and
\* then one item per key of `keys`
Nodes ==
    {[t |-> leaf.t, s |-> leaf.s, n |-> 0, keys |-> <<>>, type |-> <<>>] : leaf \in Leaves}
    \cup {[t |-> "list", s |-> "", n |-> n, keys |-> <<>>, type |-> <<>>] : n \in 0..(MaxNodes - 1)}
    \cup {[t |-> "dict", s |-> "", n |-> Len(keys), keys |-> keys, type |-> type] :
             keys \in KeyLists, type \in TypeItems}

RECURSIVE ValueAt(_, _), ValuesAt(_, _, _)

\* the value written from position i of the nodes, and the position after it
ValueAt(nodes, i) ==
    LET node == nodes[i]
        rest == ValuesAt(nodes, i + 1, node.n)
    IN  [value |-> IF node.t = "list" THEN List(rest.values)
                   ELSE IF node.t = "dict"
                        THEN Dict(node.type \o
                                  [k \in 1..node.n |-> Item(node.keys[k], rest.values[k])])
                        ELSE Scalar(node.t, node.s),
         next |-> rest.next]

\* the n values written from position i on, and the position after them
ValuesAt(nodes, i, n) ==
    IF n = 0 THEN [values |-> <<>>, next |-> i]
    ELSE LET first == ValueAt(nodes, i)
             rest == ValuesAt(nodes, first.next, n - 1)
         IN  [values |-> <<first.value>> \o rest.values, next |-> rest.next]

RECURSIVE IsValueOf(_, _, _, _)

\* value is one of the values that start with `nodes`, of which `open` are
\* yet to be written with at most `left` nodes
IsValueOf(value, nodes, open, left) ==
    IF open = 0 THEN value = ValueAt(nodes, 1).value
    ELSE \E node \in Nodes :
            /\ open - 1 + node.n <= left - 1
            /\ IsValueOf(value, Append(nodes, node), open - 1 + node.n, left - 1)

NotRun == Scalar("str", "")

\* _get_clean_value(tr_input)
CleanValue ==
    /\ tr_entry = "none"
    /\ tr_entry' = "_get_clean_value"
    /\ tr_result' = get_clean_value(tr_input)
    /\ UNCHANGED tr_input
    /\ UNCHANGED notTr

\* translate_message_to_dict of a message that MessageToDict decodes to tr_input
TranslateMessage ==
    /\ tr_entry = "none"
    /\ tr_input.t = "dict"
    /\ tr_entry' = "translate_message_to_dict"
    /\ tr_result' = translate_message_to_dict(tr_input)
    /\ UNCHANGED tr_input
    /\ UNCHANGED notTr

TrInit ==
    /\ IsValueOf(tr_input, <<>>, 1, MaxNodes)
    /\ tr_entry = "none"
    /\ tr_result = NotRun

TrNext ==
    \/ CleanValue
    \/ TranslateMessage

\* nothing is translated
TrIdle ==
    /\ tr_input = NotRun
    /\ tr_entry = "none"
    /\ tr_result = NotRun

(***************************************************************************)
(* make_json_grpc_client(host, service_name).  The descriptor pool that    *)
(* build_database_from_channel returns holds the services the server       *)
(* declares.                                                               *)
(***************************************************************************)
\* the service names a client is asked for and a server may declare
ClientServices == {"good_service", "service_b"}

MethodNames == {"MyTestMethod", "MethodB", "MethodC"}

\* a method descriptor: its name and its input type
MethodDescriptor(name) == [name |-> name, input_type |-> [message |-> name]]

\* the method lists of a service: at most MaxMethods methods of different names
MethodLists ==
    {methods \in UNION {[1..n -> MethodNames] : n \in 0..MaxMethods} :
        \A i, j \in 1..Len(methods) : methods[i] = methods[j] => i = j}

NoClientError == [type |-> "none", arg |-> ""]

FindServiceByName_EmptyService(pool, name) ==
    [found |-> TRUE,
     methods |-> IF name \in DOMAIN pool THEN pool[name] ELSE <<>>]

\* descriptor_pool_instance.FindServiceByName(service_name): the service
\* descriptor, or KeyError
FindServiceByName(pool, name) ==
    IF name \in DOMAIN pool THEN [found |-> TRUE, methods |-> pool[name]]
    ELSE [found |-> FALSE, methods |-> <<>>]

\* method.make_grpc_unary_method on "/service_name/method name" and the
\* prototype of the input type, wrapped by _make_json_to_json_method_invocation
MethodInvocation(name, method_descriptor) ==
    [method |-> <<name, method_descriptor.name>>,
     input_prototype |-> method_descriptor.input_type,
     max_retries |-> MAX_RETRIES]

Mount_FirstOnly(mounted, method_name, method_invocation) ==
    IF DOMAIN mounted /= {} THEN mounted
    ELSE [name \in {method_name} |-> method_invocation]

\* client[method_name] = method_invocation
Mount(mounted, method_name, method_invocation) ==
    [name \in DOMAIN mounted \cup {method_name} |->
        IF name = method_name THEN method_invocation ELSE mounted[name]]

\* build_database_from_channel returns the pool and the symbol database
BuildDatabase ==
    /\ cl_pc = "start"
    /\ cl_pc' = "find"
    /\ builds' = builds + 1
    /\ UNCHANGED <<services, service_name, service_descriptor, next_method, client,
                   lookups, unary_calls, cl_error>>
    /\ UNCHANGED notCl

\* build_database_from_channel raises
BuildDatabaseRaises ==
    /\ cl_pc = "start"
    /\ cl_pc' = "raised"
    /\ \E type \in {"RpcError", "RuntimeError"} : cl_error' = [type |-> type, arg |-> ""]
    /\ builds' = builds + 1
    /\ UNCHANGED <<services, service_name, service_descriptor, next_method, client, lookups,
                   unary_calls>>
    /\ UNCHANGED notCl

\* service_descriptor = descriptor_pool_instance.FindServiceByName(service_name)
FindService ==
    /\ cl_pc = "find"
    /\ lookups' = lookups + 1
    /\ LET found == FindServiceByName(services, service_name)
       IN  IF found.found
           THEN /\ service_descriptor' = found.methods
                /\ cl_pc' = "mount"
                /\ cl_error' = cl_error
           ELSE /\ cl_pc' = "raised"
                /\ cl_error' = [type |-> "KeyError", arg |-> service_name]
                /\ service_descriptor' = service_descriptor
    /\ UNCHANGED <<services, service_name, next_method, client, builds, unary_calls>>
    /\ UNCHANGED notCl

\* one turn of the loop over service_descriptor.methods
MountMethod ==
    /\ cl_pc = "mount"
    /\ next_method <= Len(service_descriptor)
    /\ LET method_descriptor == MethodDescriptor(service_descriptor[next_method])
           method_name == method_descriptor.name
       IN  client' = Mount(client, method_name,
                           MethodInvocation(service_name, method_descriptor))
    /\ next_method' = next_method + 1
    /\ UNCHANGED <<services, service_name, cl_pc, service_descriptor, lookups, builds, unary_calls, cl_error>>
    /\ UNCHANGED notCl

\* return client
ReturnClient ==
    /\ cl_pc = "mount"
    /\ next_method > Len(service_descriptor)
    /\ cl_pc' = "returned"
    /\ UNCHANGED <<services, service_name, service_descriptor, next_method, client,
                   lookups, builds, unary_calls, cl_error>>
    /\ UNCHANGED notCl

CallInvocation_Rediscovers ==
    /\ cl_pc = "returned"
    /\ Len(unary_calls) < MaxInvocations
    /\ \E method_name \in DOMAIN client :
          unary_calls' = Append(unary_calls, client[method_name].method)
    /\ builds' = builds + 1
    /\ UNCHANGED <<services, service_name, cl_pc, service_descriptor, next_method, client,
                   lookups, cl_error>>
    /\ UNCHANGED notCl

\* the caller calls one of the invocations of the client: the invocation
\* builds its input message and calls the unary method of the channel
CallInvocation ==
    /\ cl_pc = "returned"
    /\ Len(unary_calls) < MaxInvocations
    /\ \E method_name \in DOMAIN client :
          unary_calls' = Append(unary_calls, client[method_name].method)
    /\ UNCHANGED <<services, service_name, cl_pc, service_descriptor, next_method, client,
                   lookups, builds, cl_error>>
    /\ UNCHANGED notCl

ClInit ==
    /\ \E declared \in SUBSET ClientServices : services \in [declared -> MethodLists]
    /\ service_name \in ClientServices
    /\ cl_pc = "start"
    /\ service_descriptor = <<>>
    /\ next_method = 1
    /\ client = <<>>
    /\ lookups = 0
    /\ builds = 0
    /\ unary_calls = <<>>
    /\ cl_error = NoClientError

ClNext ==
    \/ BuildDatabase
    \/ BuildDatabaseRaises
    \/ FindService
    \/ MountMethod
    \/ ReturnClient
    \/ CallInvocation

\* no client is made
ClIdle ==
    /\ services = <<>>
    /\ service_name = "good_service"
    /\ cl_pc = "start"
    /\ service_descriptor = <<>>
    /\ next_method = 1
    /\ client = <<>>
    /\ lookups = 0
    /\ builds = 0
    /\ unary_calls = <<>>
    /\ cl_error = NoClientError

(***************************************************************************)
(* get_proto_bytes_for_requests on its own: the stream answers every       *)
(* request with one response of at most MaxBlobs files.                    *)
(***************************************************************************)
\* the file names asked for, and the files the responses are made of
FetchNames == {ProtoNames[1], ProtoNames[2]}

\* FileDescriptorProto bytes of a file of the test server
ProtoBytes(name) == [name |-> name, dependency |-> TestGraph[name]]

BlobLists == UNION {[1..n -> {ProtoBytes(name) : name \in FetchNames}] : n \in 0..MaxBlobs}

\* proto_bytes = the comprehension over the responses and their files
GetProtoBytes ==
    /\ fetch_pc = "call"
    /\ proto_bytes' = get_proto_bytes_for_requests(file_descriptors_responses)
    /\ fetch_pc' = "returned"
    /\ UNCHANGED <<file_requests, file_descriptors_responses>>
    /\ UNCHANGED notFetch

FetchInit ==
    /\ \E n \in 0..MaxRequests :
          /\ file_requests \in [1..n -> FetchNames]
          /\ file_descriptors_responses \in [1..n -> BlobLists]
    /\ proto_bytes = <<>>
    /\ fetch_pc = "call"

FetchNext ==
    \/ GetProtoBytes

\* get_proto_bytes_for_requests is not called on its own
FetchIdle ==
    /\ file_requests = <<>>
    /\ file_descriptors_responses = <<>>
    /\ proto_bytes = <<>>
    /\ fetch_pc = "call"

(***************************************************************************)
(* ClientRetryingMiddlewareUnaryOutput as make_grpc_client sets it up: one *)
(* call through the function Retrier returns,                              *)
(* backoff.on_exception(backoff.expo, exceptions_to_retry, max_retries)(fn) *)
(***************************************************************************)
\* make_grpc_client's default of num_retries
DEFAULT_NUM_RETRIES == 3

\* exceptions_to_retry when the caller gives none
DefaultExceptionsToRetry == {"ConnectionRefusedError"}

\* what the wrapped function raises: the exceptions the translating
\* interceptor makes of a failed call
RaisedExceptions == {"ConnectionRefusedError", "TimeoutError", "NotImplementedError", "RpcError"}

\* the exception is an instance of a class of exceptions_to_retry
IsRetriable(exception, classes) == exception \in classes

\* the caller calls the method of the stub
CallStub ==
    /\ retry_pc = "idle"
    /\ retry_pc' = "try"
    /\ UNCHANGED <<num_retries, exceptions_to_retry, retry_tries, retry_outcomes, retry_error>>
    /\ UNCHANGED notRetry

\* the wrapped function raises
ContinuationRaises ==
    /\ retry_pc = "try"
    /\ \E exception \in RaisedExceptions :
          /\ retry_outcomes' = Append(retry_outcomes, exception)
          /\ IF /\ IsRetriable(exception, exceptions_to_retry)
                /\ ~MaxTriesExceeded(retry_tries + 1, num_retries)
             THEN retry_pc' = "sleep" /\ retry_error' = retry_error
             ELSE retry_pc' = "raised" /\ retry_error' = exception
    /\ retry_tries' = retry_tries + 1
    /\ UNCHANGED <<num_retries, exceptions_to_retry>>
    /\ UNCHANGED notRetry

\* the wrapped function returns
ContinuationReturns ==
    /\ retry_pc = "try"
    /\ retry_tries' = retry_tries + 1
    /\ retry_outcomes' = Append(retry_outcomes, "returned")
    /\ retry_pc' = "returned"
    /\ UNCHANGED <<num_retries, exceptions_to_retry, retry_error>>
    /\ UNCHANGED notRetry

\* time.sleep(seconds) between two attempts
RetrySleep ==
    /\ retry_pc = "sleep"
    /\ retry_pc' = "try"
    /\ UNCHANGED <<num_retries, exceptions_to_retry, retry_tries, retry_outcomes, retry_error>>
    /\ UNCHANGED notRetry

RetryInit ==
    /\ num_retries \in 1..MaxMaxRetries
    /\ exceptions_to_retry \in {DefaultExceptionsToRetry,
                                {"ConnectionRefusedError", "TimeoutError"}}
    /\ retry_pc = "idle"
    /\ retry_tries = 0
    /\ retry_outcomes = <<>>
    /\ retry_error = "none"

RetryNext ==
    \/ CallStub
    \/ ContinuationRaises
    \/ ContinuationReturns
    \/ RetrySleep

\* no stub is made
RetryIdle ==
    /\ num_retries = DEFAULT_NUM_RETRIES
    /\ exceptions_to_retry = DefaultExceptionsToRetry
    /\ retry_pc = "idle"
    /\ retry_tries = 0
    /\ retry_outcomes = <<>>
    /\ retry_error = "none"

(***************************************************************************)
(* raise_exception_from_grpc_exception of client_wrapper.py and of         *)
(* client_side_middleware.py, and the wrappers that call them.  An         *)
(* exception is a record: its class, and the arguments it was made with.   *)
(***************************************************************************)
\* status codes of a failed call
ErrorStatusCodes == {"DEADLINE_EXCEEDED", "UNIMPLEMENTED", "UNAVAILABLE", "INTERNAL"}

MetadataKeys == {"error_code", "error_details", "other"}

\* values of the metadata entries, as the strings they are sent as
MetadataValues == {"-1", "-2", "abc", "[]", "[\"some details\"]"}

\* the trailing metadata of a failed call: a list of (key, value)
TrailingMetadata ==
    UNION {[1..n -> MetadataKeys \X MetadataValues] : n \in 0..MaxMetadata}

\* the functions a client is made with: none, the one of the tests (-1 is
\* ExceptionOne, nothing else has a class), one with a class for every code
TranslationFunctions == {"None", "code_to_class", "code_to_any_class"}

CodeNone == [int |-> FALSE, value |-> 0]

CodeOf(value) == [int |-> TRUE, value |-> value]

\* int(value): the integer, or ValueError and the code as it was
ParseErrorCode(value, code) ==
    CASE value = "-1" -> CodeOf(0 - 1)
      [] value = "-2" -> CodeOf(0 - 2)
      [] OTHER -> code

\* json.loads(details)
JsonLoads(details) ==
    CASE details = "[]" -> [kind |-> "list", items |-> <<>>]
      [] details = "[\"some details\"]" -> [kind |-> "list", items |-> <<"some details">>]
      [] details = "-1" -> [kind |-> "number", items |-> <<>>]
      [] details = "-2" -> [kind |-> "number", items |-> <<>>]
      [] OTHER -> [kind |-> "JSONDecodeError", items |-> <<>>]

\* code_to_exception_class_func(code): a class, or "None"
ExceptionClassFor(func, code) ==
    CASE func = "code_to_class" ->
            IF code.int /\ code.value = 0 - 1 THEN "ExceptionOne" ELSE "None"
      [] func = "code_to_any_class" ->
            IF code.int /\ code.value = 0 - 1 THEN "ExceptionOne" ELSE "ExceptionTwo"

Exception(class, args) == [class |-> class, args |-> args, of |-> <<>>]

\* the transport error itself, raised again
Reraised(e) == [class |-> "RpcError", args |-> <<>>, of |-> e]

RECURSIVE ReadMetadata(_, _)
\* the loop over exc.trailing_metadata(): code and details after the entries
ReadMetadata(metadata, found) ==
    IF metadata = <<>> THEN found
    ELSE LET key == Head(metadata)[1]
             value == Head(metadata)[2]
         IN ReadMetadata(Tail(metadata),
                CASE key = "error_code" ->
                        [found EXCEPT !.code = ParseErrorCode(value, found.code)]
                  [] key = "error_details" -> [found EXCEPT !.details = value]
                  [] OTHER -> found)

\* exception_class(*exception_args) with exception_args = json.loads(details)
RaiseExceptionClass(exception_class, details) ==
    LET exception_args == JsonLoads(details)
    IN  CASE exception_args.kind = "list" -> Exception(exception_class, exception_args.items)
          [] exception_args.kind = "number" -> Exception("TypeError", <<>>)
          [] OTHER -> Exception("JSONDecodeError", <<>>)

\* client_wrapper.raise_exception_from_grpc_exception
client_wrapper_raise_exception_from_grpc_exception(func, e) ==
    LET found == ReadMetadata(e.trailing_metadata, [code |-> CodeNone, details |-> "[]"])
    IN  IF func = "None" THEN Exception("TypeError", <<>>)
        ELSE LET exception_class == ExceptionClassFor(func, found.code)
             IN  IF exception_class /= "None"
                 THEN RaiseExceptionClass(exception_class, found.details)
                 ELSE Reraised(e)

middleware_raise_exception_from_grpc_exception_AnyStatus(func, e) ==
    LET found == ReadMetadata(e.trailing_metadata, [code |-> CodeNone, details |-> "[]"])
        exception_class == IF func = "None" THEN "None"
                           ELSE ExceptionClassFor(func, found.code)
    IN  IF exception_class /= "None"
        THEN RaiseExceptionClass(exception_class, found.details)
        ELSE Reraised(e)

\* client_side_middleware.raise_exception_from_grpc_exception
middleware_raise_exception_from_grpc_exception(func, e) ==
    CASE e.code = "DEADLINE_EXCEEDED" -> Exception("TimeoutError", <<>>)
      [] e.code = "UNIMPLEMENTED" -> Exception("NotImplementedError", <<>>)
      [] e.code = "UNAVAILABLE" -> Exception("ConnectionRefusedError", <<>>)
      [] OTHER ->
            LET found == ReadMetadata(e.trailing_metadata,
                                      [code |-> CodeNone, details |-> "[]"])
                exception_class == IF func = "None" THEN "None"
                                   ELSE ExceptionClassFor(func, found.code)
            IN  IF exception_class /= "None"
                THEN RaiseExceptionClass(exception_class, found.details)
                ELSE Reraised(e)

\* a unary method of a stub of update_grpc_stub_with_wrappers raises exc:
\* the method is wrapped only when the stub was made with a function
WrappedMethodRaises ==
    /\ err_pc = "call"
    /\ err_raised' =
          IF code_to_exception_class_func /= "None"
          THEN client_wrapper_raise_exception_from_grpc_exception(
                   code_to_exception_class_func, exc)
          ELSE Reraised(exc)
    /\ err_module' = "client_wrapper"
    /\ err_pc' = "raised"
    /\ UNCHANGED <<exc, code_to_exception_class_func>>
    /\ UNCHANGED notErr

\* a call through the Translator of
\* ClientExceptionTranslationMiddlewareUnaryOutput ends with exc
TranslatorRaises ==
    /\ err_pc = "call"
    /\ err_raised' = middleware_raise_exception_from_grpc_exception(
                         code_to_exception_class_func, exc)
    /\ err_module' = "client_side_middleware"
    /\ err_pc' = "raised"
    /\ UNCHANGED <<exc, code_to_exception_class_func>>
    /\ UNCHANGED notErr

ErrInit ==
    /\ exc \in [code : ErrorStatusCodes, trailing_metadata : TrailingMetadata]
    /\ code_to_exception_class_func \in TranslationFunctions
    /\ err_pc = "call"
    /\ err_module = "none"
    /\ err_raised = Exception("none", <<>>)

ErrNext ==
    \/ WrappedMethodRaises
    \/ TranslatorRaises

\* no call fails
ErrIdle ==
    /\ exc = [code |-> "INTERNAL", trailing_metadata |-> <<>>]
    /\ code_to_exception_class_func = "None"
    /\ err_pc = "call"
    /\ err_module = "none"
    /\ err_raised = Exception("none", <<>>)

(***************************************************************************)
(* Calls of the invocations of _make_json_to_json_method_invocation that   *)
(* run at the same time, each in a thread of its own.  A message is a      *)
(* record of the fields int32_value and string_value; any is set for an    *)
(* Any that wraps a string.                                                *)

(***************************************************************************)
(* _with_generator_error_translation(code_to_exception_class_func, func):  *)
(* the generator that wraps a stream method of a stub.  The consumer asks  *)
(* for one item at a time; the wrapped stream yields an item, ends, or     *)
(* raises.                                                                 *)
(***************************************************************************)
StreamItems == {0, 1}

\* how a stream ends: it returns, or raises a grpc.RpcError or another error
StreamEnds == {"returns", "RpcError", "ValueError"}

\* the grpc.RpcError of a failing stream: a status code and at most one
\* entry of trailing metadata
StreamErrorsRaised ==
    {e \in [code : ErrorStatusCodes, trailing_metadata : TrailingMetadata] :
        Len(e.trailing_metadata) <= 1}

\* the functions a stream method is wrapped with (update_grpc_stub_with_wrappers
\* wraps none without one)
WrapperFunctions == TranslationFunctions \ {"None"}

\* nothing has left the wrapper
NoException == Exception("none", <<>>)

\* an exception that is no grpc.RpcError, as the stream raised it
Propagated(class) == Exception(class, <<>>)

\* for x in func(*args, **kwargs): yield x
GeneratorYields ==
    /\ gen_pc = "iterating"
    /\ gen_pos < Len(stream.items)
    /\ gen_pos' = gen_pos + 1
    /\ gen_yielded' = Append(gen_yielded, stream.items[gen_pos + 1])
    /\ UNCHANGED <<stream, gen_func, gen_pc, gen_raised>>
    /\ UNCHANGED notGen

\* the wrapped stream is exhausted: the for loop ends and so does the wrapper
GeneratorReturns ==
    /\ gen_pc = "iterating"
    /\ gen_pos = Len(stream.items)
    /\ stream.end = "returns"
    /\ gen_pc' = "exhausted"
    /\ UNCHANGED <<stream, gen_func, gen_pos, gen_yielded, gen_raised>>
    /\ UNCHANGED notGen

GeneratorRaisesRpcError_AtAnyItem ==
    /\ gen_pc = "iterating"
    /\ gen_pos <= Len(stream.items)
    /\ stream.end = "RpcError"
    /\ gen_pc' = "raised"
    /\ gen_raised' = client_wrapper_raise_exception_from_grpc_exception(gen_func, stream.exc)
    /\ UNCHANGED <<stream, gen_func, gen_pos, gen_yielded>>
    /\ UNCHANGED notGen

\* the wrapped stream raises a grpc.RpcError after its items: except
\* grpc.RpcError as exc: raise_exception_from_grpc_exception(...)
GeneratorRaisesRpcError ==
    /\ gen_pc = "iterating"
    /\ gen_pos = Len(stream.items)
    /\ stream.end = "RpcError"
    /\ gen_pc' = "raised"
    /\ gen_raised' = client_wrapper_raise_exception_from_grpc_exception(gen_func, stream.exc)
    /\ UNCHANGED <<stream, gen_func, gen_pos, gen_yielded>>
    /\ UNCHANGED notGen

\* the wrapped stream raises another exception after its items: no except
\* clause matches and it leaves the wrapper as it is
GeneratorRaisesOther ==
    /\ gen_pc = "iterating"
    /\ gen_pos = Len(stream.items)
    /\ stream.end \notin {"returns", "RpcError"}
    /\ gen_pc' = "raised"
    /\ gen_raised' = Propagated(stream.end)
    /\ UNCHANGED <<stream, gen_func, gen_pos, gen_yielded>>
    /\ UNCHANGED notGen

\* the consumer stops asking and closes the generator
GeneratorClosed ==
    /\ gen_pc = "iterating"
    /\ gen_pc' = "closed"
    /\ UNCHANGED <<stream, gen_func, gen_pos, gen_yielded, gen_raised>>
    /\ UNCHANGED notGen

GenInit ==
    /\ stream \in [items : UNION {[1..n -> StreamItems] : n \in 0..MaxItems},
                   end : StreamEnds,
                   exc : StreamErrorsRaised]
    /\ stream.end /= "RpcError" => stream.exc = [code |-> "INTERNAL", trailing_metadata |-> <<>>]
    /\ gen_func \in WrapperFunctions
    /\ gen_pos = 0
    /\ gen_yielded = <<>>
    /\ gen_pc = "iterating"
    /\ gen_raised = NoException

GenNext ==
    \/ GeneratorYields
    \/ GeneratorReturns
    \/ GeneratorRaisesRpcError
    \/ GeneratorRaisesOther
    \/ GeneratorClosed

\* no stream is read
GenIdle ==
    /\ stream = [items |-> <<>>, end |-> "returns",
                 exc |-> [code |-> "INTERNAL", trailing_metadata |-> <<>>]]
    /\ gen_func = "code_to_class"
    /\ gen_pos = 0
    /\ gen_yielded = <<>>
    /\ gen_pc = "iterating"
    /\ gen_raised = NoException


(***************************************************************************)
(* One unary call through a stub of make_grpc_client.  The interceptors    *)
(* of grpc.intercept_channel are given control in the order of the list:   *)
(* the exception counter, the retrier, the translator, the timer, and      *)
(* then the channel.  Each interceptor calls the one below it through a    *)
(* continuation, which hands back every failure as an outcome: the         *)
(* grpc.RpcError itself, or the exception in an outcome whose exception()  *)
(* returns it.  The actions follow the call on its way back up.            *)
(***************************************************************************)
GRPC_RENDEZVOUS_ERROR == "_Rendezvous"

\* the names of the class of the grpc.RpcError a channel ends a call with,
\* over the versions of grpc
RpcErrorTypeNames == {GRPC_RENDEZVOUS_ERROR, "_InactiveRpcError"}

\* no grpc.RpcError: the call ended with status OK
NoRpcError == [code |-> "OK", trailing_metadata |-> <<>>]

\* the outcomes of a continuation: a response, or a failure with its exception
UnaryOutcome == [ok |-> TRUE, exception |-> NoException]

FailureOutcome(exception) == [ok |-> FALSE, exception |-> exception]

ExceptionLabel_OfStatusCode(exception, code, type_name) ==
    [exception |-> GRPC_RENDEZVOUS_ERROR, code |-> code]

\* the exception label of Counter.wrap: the class name, with the status
\* code when the class is _Rendezvous
ExceptionLabel(exception, code, type_name) ==
    IF exception.class = "RpcError"
    THEN IF type_name = GRPC_RENDEZVOUS_ERROR
         THEN [exception |-> GRPC_RENDEZVOUS_ERROR, code |-> code]
         ELSE [exception |-> type_name, code |-> "none"]
    ELSE [exception |-> exception.class, code |-> "none"]

\* the call goes out on the channel and ends with a response or with a
\* grpc.RpcError
ChannelCall ==
    /\ chain_pc = "call"
    /\ \E e \in {NoRpcError} \cup [code : ErrorStatusCodes, trailing_metadata : TrailingMetadata] :
          /\ chain_exc' = e
          /\ chain_outcome' = IF e = NoRpcError THEN UnaryOutcome
                              ELSE FailureOutcome(Reraised(e))
    /\ underlying_calls' = underlying_calls + 1
    /\ chain_pc' = "timer"
    /\ UNCHANGED <<chain_func, histogram_count, error_labels, chain_raised>>
    /\ UNCHANGED notChain

\* Timer.wrap: with self._histogram.time(): return fn(request, context)
TimerReturns ==
    /\ chain_pc = "timer"
    /\ histogram_count' = histogram_count + 1
    /\ chain_pc' = "translator"
    /\ UNCHANGED <<chain_func, chain_exc, chain_outcome, underlying_calls, error_labels,
                   chain_raised>>
    /\ UNCHANGED notChain

\* Translator.wrap: the result is returned when its code is OK
TranslatorReturns ==
    /\ chain_pc = "translator"
    /\ chain_outcome.ok
    /\ chain_pc' = "retrier"
    /\ UNCHANGED <<chain_func, chain_exc, chain_outcome, underlying_calls, histogram_count,
                   error_labels, chain_raised>>
    /\ UNCHANGED notChain

\* Translator.wrap: any other result is raised, caught as grpc.RpcError and
\* handed to raise_exception_from_grpc_exception; what that raises is the
\* outcome the retrier gets from its continuation
TranslatorTranslates ==
    /\ chain_pc = "translator"
    /\ ~chain_outcome.ok
    /\ chain_outcome' = FailureOutcome(
           middleware_raise_exception_from_grpc_exception(chain_func, chain_outcome.exception.of))
    /\ chain_pc' = "retrier"
    /\ UNCHANGED <<chain_func, chain_exc, underlying_calls, histogram_count, error_labels,
                   chain_raised>>
    /\ UNCHANGED notChain

\* Retrier: backoff.on_exception(...)(fn) calls fn again only when fn raises;
\* fn is a continuation and has returned
RetrierReturns ==
    /\ chain_pc = "retrier"
    /\ chain_pc' = "counter"
    /\ UNCHANGED <<chain_func, chain_exc, chain_outcome, underlying_calls, histogram_count,
                   error_labels, chain_raised>>
    /\ UNCHANGED notChain

\* Counter.wrap with r.exception() None: the response reaches the caller
CounterPasses ==
    /\ chain_pc = "counter"
    /\ chain_outcome.ok
    /\ chain_pc' = "returned"
    /\ UNCHANGED <<chain_func, chain_exc, chain_outcome, underlying_calls, histogram_count,
                   error_labels, chain_raised>>
    /\ UNCHANGED notChain

\* Counter.wrap with r.exception(): the counter of the label is incremented,
\* and the result() of the outcome raises the exception to the caller
CounterCounts ==
    /\ chain_pc = "counter"
    /\ ~chain_outcome.ok
    /\ \E type_name \in RpcErrorTypeNames :
          error_labels' = Append(error_labels,
              ExceptionLabel(chain_outcome.exception, chain_exc.code, type_name))
    /\ chain_raised' = chain_outcome.exception
    /\ chain_pc' = "raised"
    /\ UNCHANGED <<chain_func, chain_exc, chain_outcome, underlying_calls, histogram_count>>
    /\ UNCHANGED notChain

ChainInit ==
    /\ chain_func \in TranslationFunctions
    /\ chain_pc = "call"
    /\ chain_exc = NoRpcError
    /\ chain_outcome = UnaryOutcome
    /\ underlying_calls = 0
    /\ histogram_count = 0
    /\ error_labels = <<>>
    /\ chain_raised = NoException

ChainNext ==
    \/ ChannelCall
    \/ TimerReturns
    \/ TranslatorReturns
    \/ TranslatorTranslates
    \/ RetrierReturns
    \/ CounterPasses
    \/ CounterCounts

\* no call through a stub
ChainIdle ==
    /\ chain_func = "None"
    /\ chain_pc = "call"
    /\ chain_exc = NoRpcError
    /\ chain_outcome = UnaryOutcome
    /\ underlying_calls = 0
    /\ histogram_count = 0
    /\ error_labels = <<>>
    /\ chain_raised = NoException

(***************************************************************************)
Callers == 1..NumCallers

\* the input dicts of the callers: one field each, the third of a name the
\* message has no field for
InputDicts ==
    {<<Item("int32Value", "1")>>, <<Item("stringValue", "foo")>>, <<Item("unknownField", "x")>>}

\* the methods of the client: the first returns a message of the type of
\* its input, the second an Any
CallMethods == {"Echo", "Wrap"}

Message(int32_value, string_value) ==
    [any |-> FALSE, int32_value |-> int32_value, string_value |-> string_value]

AnyOf(string_value) == [any |-> TRUE, int32_value |-> "0", string_value |-> string_value]

\* proto_type(): a new message, every field at its default
proto_type == Message("0", "")

NoMessage == [any |-> FALSE, int32_value |-> "none", string_value |-> "none"]

InputInstance_OfFirstCaller(c, messages) ==
    IF c > 1 /\ messages[1] /= NoMessage THEN messages[1] ELSE proto_type

\* input_message = proto_type(): the instance an attempt of call c fills
InputInstance(c, messages) == proto_type

RECURSIVE ParseDict(_, _)
\* json_format.ParseDict(js_dict, message): sets the fields js_dict names,
\* leaves the others as they are, raises ParseError on a name of no field
ParseDict(js_dict, message) ==
    IF js_dict = <<>> THEN [raised |-> FALSE, message |-> message]
    ELSE LET name == Head(js_dict).key
             value == Head(js_dict).value
         IN  CASE name = "int32Value" ->
                     ParseDict(Tail(js_dict), [message EXCEPT !.int32_value = value])
               [] name = "stringValue" ->
                     ParseDict(Tail(js_dict), [message EXCEPT !.string_value = value])
               [] OTHER -> [raised |-> TRUE, message |-> message]

\* the messages the server may answer a request of the method with
ResponsesTo(method_name, request) ==
    IF method_name = "Echo"
    THEN {request, Message("7", "int32_value: " \o request.int32_value)}
    ELSE {AnyOf(request.string_value), AnyOf("int32_value: " \o request.int32_value)}

\* json_format.MessageToDict(message, including_default_value_fields=True):
\* every field under its JSON name; an Any as its type and the value it wraps
MessageToDict(message) ==
    IF message.any
    THEN Dict(<<Item(TYPE_KEY, Scalar("str", "type.googleapis.com/google.protobuf.StringValue")),
                Item("value", Scalar("str", message.string_value))>>)
    ELSE Dict(<<Item("int32Value", Scalar("int", message.int32_value)),
                Item("stringValue", Scalar("str", message.string_value))>>)

CallMethodCallable_Cached ==
    \E c \in Callers :
       /\ call_pc[c] = "try"
       /\ call_tries' = [call_tries EXCEPT ![c] = @ + 1]
       /\ LET parsed == ParseDict(call_input[c], InputInstance(c, input_message))
              cached == {d \in Callers : /\ call_pc[d] = "returned"
                                         /\ call_input[d] = call_input[c]
                                         /\ call_method[d] = call_method[c]}
          IN  IF parsed.raised
              THEN /\ call_pc' = [call_pc EXCEPT ![c] = "raised"]
                   /\ call_error' = [call_error EXCEPT ![c] = OtherError("ParseError")]
                   /\ UNCHANGED <<input_message, call_request, call_rpcs, call_result>>
              ELSE IF cached /= {}
              THEN /\ call_pc' = [call_pc EXCEPT ![c] = "returned"]
                   /\ call_result' = [call_result EXCEPT
                                         ![c] = call_result[CHOOSE d \in cached : TRUE]]
                   /\ UNCHANGED <<input_message, call_request, call_rpcs, call_error>>
              ELSE /\ input_message' = [input_message EXCEPT ![c] = parsed.message]
                   /\ call_request' = [call_request EXCEPT ![c] = parsed.message]
                   /\ call_rpcs' = [call_rpcs EXCEPT ![c] = @ + 1]
                   /\ call_pc' = [call_pc EXCEPT ![c] = "called"]
                   /\ UNCHANGED <<call_error, call_result>>
       /\ UNCHANGED <<call_input, call_method, call_response>>
       /\ UNCHANGED notCall

\* an attempt of a call up to its call of method_callable: a new input
\* message, ParseDict, and the request on the channel
CallMethodCallable ==
    \E c \in Callers :
       /\ call_pc[c] = "try"
       /\ call_tries' = [call_tries EXCEPT ![c] = @ + 1]
       /\ LET parsed == ParseDict(call_input[c], InputInstance(c, input_message))
          IN  IF parsed.raised
              THEN /\ call_pc' = [call_pc EXCEPT ![c] = "raised"]
                   /\ call_error' = [call_error EXCEPT ![c] = OtherError("ParseError")]
                   /\ UNCHANGED <<input_message, call_request, call_rpcs>>
              ELSE /\ input_message' = [input_message EXCEPT ![c] = parsed.message]
                   /\ call_request' = [call_request EXCEPT ![c] = parsed.message]
                   /\ call_rpcs' = [call_rpcs EXCEPT ![c] = @ + 1]
                   /\ call_pc' = [call_pc EXCEPT ![c] = "called"]
                   /\ UNCHANGED call_error
       /\ UNCHANGED <<call_input, call_method, call_response, call_result>>
       /\ UNCHANGED notCall

\* method_callable returns the response of the server, the attempt
\* translates it and the call returns the dict
MethodCallableReturns ==
    \E c \in Callers :
       /\ call_pc[c] = "called"
       /\ \E response_as_message \in ResponsesTo(call_method[c], call_request[c]) :
             LET response_as_dict ==
                     translate_message_to_dict(MessageToDict(response_as_message))
             IN  /\ call_response' = [call_response EXCEPT ![c] = response_as_message]
                 /\ IF IsRaised(response_as_dict)
                    THEN /\ call_pc' = [call_pc EXCEPT ![c] = "raised"]
                         /\ call_error' = [call_error EXCEPT
                                              ![c] = OtherError(response_as_dict.t)]
                         /\ UNCHANGED call_result
                    ELSE /\ call_pc' = [call_pc EXCEPT ![c] = "returned"]
                         /\ call_result' = [call_result EXCEPT ![c] = response_as_dict]
                         /\ UNCHANGED call_error
       /\ UNCHANGED <<call_input, call_method, input_message, call_request, call_tries,
                      call_rpcs>>
       /\ UNCHANGED notCall

\* method_callable raises a grpc.RpcError: backoff sleeps and the call
\* tries again, or the attempts are used up and the call raises
MethodCallableFails ==
    \E c \in Callers :
       /\ call_pc[c] = "called"
       /\ \E code \in StreamErrors :
             IF IsRetried(RpcError(code)) /\ ~MaxTriesExceeded(call_tries[c], MAX_RETRIES)
             THEN /\ call_pc' = [call_pc EXCEPT ![c] = "try"]
                  /\ UNCHANGED call_error
             ELSE /\ call_pc' = [call_pc EXCEPT ![c] = "raised"]
                  /\ call_error' = [call_error EXCEPT ![c] = RpcError(code)]
       /\ UNCHANGED <<call_input, call_method, input_message, call_request, call_response,
                      call_tries, call_rpcs, call_result>>
       /\ UNCHANGED notCall

CallInit ==
    /\ call_input \in [Callers -> InputDicts]
    /\ call_method \in [Callers -> CallMethods]
    /\ call_pc = [c \in Callers |-> "try"]
    /\ input_message = [c \in Callers |-> NoMessage]
    /\ call_request = [c \in Callers |-> NoMessage]
    /\ call_response = [c \in Callers |-> NoMessage]
    /\ call_tries = [c \in Callers |-> 0]
    /\ call_rpcs = [c \in Callers |-> 0]
    /\ call_result = [c \in Callers |-> NotRun]
    /\ call_error = [c \in Callers |-> Returned]

CallNext ==
    \/ CallMethodCallable
    \/ MethodCallableReturns
    \/ MethodCallableFails

\* no invocation is called
CallIdle ==
    /\ call_input = <<>>
    /\ call_method = <<>>
    /\ call_pc = <<>>
    /\ input_message = <<>>
    /\ call_request = <<>>
    /\ call_response = <<>>
    /\ call_tries = <<>>
    /\ call_rpcs = <<>>
    /\ call_result = <<>>
    /\ call_error = <<>>

Init == RegInit /\ InvIdle /\ TrIdle /\ ClIdle /\ FetchIdle /\ RetryIdle /\ ErrIdle /\ CallIdle /\ GenIdle /\ ChainIdle

Next == RegNext

\* build_database_from_stub on the enumerated servers
Spec == Init /\ [][Next]_vars

InvokeInit == RegIdle /\ InvInit /\ TrIdle /\ ClIdle /\ FetchIdle /\ RetryIdle /\ ErrIdle /\ CallIdle /\ GenIdle /\ ChainIdle

InvokeNext == InvNext

\* one call of an invocation, for every max_retries up to MaxMaxRetries
SpecInvoke == InvokeInit /\ [][InvokeNext]_vars

TranslateInit == RegIdle /\ InvIdle /\ TrInit /\ ClIdle /\ FetchIdle /\ RetryIdle /\ ErrIdle /\ CallIdle /\ GenIdle /\ ChainIdle

TranslateNext == TrNext

\* one translation of every decoded value of at most MaxNodes nodes
SpecTranslate == TranslateInit /\ [][TranslateNext]_vars

ClientInit == RegIdle /\ InvIdle /\ TrIdle /\ ClInit /\ FetchIdle /\ RetryIdle /\ ErrIdle /\ CallIdle /\ GenIdle /\ ChainIdle

ClientNext == ClNext

\* one call of make_json_grpc_client for every enumerated pool and service
SpecClient == ClientInit /\ [][ClientNext]_vars

\* build_database_from_stub runs in one thread that is never suspended for
\* good: a step that can be taken is taken
SpecRuns == Init /\ [][Next]_vars /\ WF_vars(Next)

RetryOnlyInit == RegIdle /\ InvIdle /\ TrIdle /\ ClIdle /\ FetchIdle /\ RetryInit /\ ErrIdle /\ CallIdle /\ GenIdle /\ ChainIdle

RetryOnlyNext == RetryNext

\* one call through the retrying interceptor of a stub of make_grpc_client
SpecRetry == RetryOnlyInit /\ [][RetryOnlyNext]_vars

ErrOnlyInit == RegIdle /\ InvIdle /\ TrIdle /\ ClIdle /\ FetchIdle /\ RetryIdle /\ ErrInit /\ CallIdle /\ GenIdle /\ ChainIdle

ErrOnlyNext == ErrNext

\* one failed call through a client that translates exceptions
SpecErr == ErrOnlyInit /\ [][ErrOnlyNext]_vars

CallsInit ==
    RegIdle /\ InvIdle /\ TrIdle /\ ClIdle /\ FetchIdle /\ RetryIdle /\ ErrIdle /\ CallInit /\ GenIdle
    /\ ChainIdle

CallsNext == CallNext

\* NumCallers calls of invocations of one client, in any interleaving
SpecCalls == CallsInit /\ [][CallsNext]_vars

FetchOnlyInit == RegIdle /\ InvIdle /\ TrIdle /\ ClIdle /\ FetchInit /\ RetryIdle /\ ErrIdle /\ CallIdle /\ GenIdle /\ ChainIdle

FetchOnlyNext == FetchNext

\* one call of get_proto_bytes_for_requests for every enumerated stream
SpecFetch == FetchOnlyInit /\ [][FetchOnlyNext]_vars

\* one stream read through the generator wrapper
GenOnlyInit ==
    RegIdle /\ InvIdle /\ TrIdle /\ ClIdle /\ FetchIdle /\ RetryIdle /\ ErrIdle /\ CallIdle /\ GenInit
    /\ ChainIdle

GenOnlyNext == GenNext

SpecGen == GenOnlyInit /\ [][GenOnlyNext]_vars

\* one call through a stub of make_grpc_client with the default num_retries
\* and exceptions_to_retry
ChainOnlyInit ==
    RegIdle /\ InvIdle /\ TrIdle /\ ClIdle /\ FetchIdle /\ RetryIdle /\ ErrIdle /\ CallIdle /\ GenIdle
    /\ ChainInit

ChainOnlyNext == ChainNext

SpecChain == ChainOnlyInit /\ [][ChainOnlyNext]_vars

(***************************************************************************)
(* Properties of the import of file descriptor protos.                     *)
(***************************************************************************)
\* the names added to the descriptor pool, in the order of the Add calls
Commits == [k \in 1..Len(descriptor_pool) |-> descriptor_pool[k].name]

\* the names reachable from the names S through dependency edges, S included
RECURSIVE Closure(_)
Closure(S) ==
    LET T == S \cup UNION {Range(graph[n]) : n \in S}
    IN IF T = S THEN S ELSE Closure(T)

Acyclic == \A n \in Files : n \notin Closure(Range(graph[n]))

\* the post-order depth-first traversal from the names `names`, in order,
\* of the files not in `done`
RECURSIVE PostOrder(_, _)
PostOrder(names, done) ==
    IF names = <<>> THEN <<>>
    ELSE LET n == Head(names)
             first == IF n \in done THEN <<>>
                      ELSE PostOrder(graph[n], done) \o <<n>>
         IN first \o PostOrder(Tail(names), done \cup Range(first))

LastBatch == requests[Len(requests)]

AtEntry == InImport /\ Top.pc = "entry"

\* C1: in every reachable state, also of a run that aborts later, every file
\* in the descriptor pool was added after each of its declared dependencies.
DependenciesCommittedFirst ==
    \A i \in 1..Len(descriptor_pool) :
        \A d \in Range(descriptor_pool[i].dependency) :
            \E j \in 1..(i - 1) : descriptor_pool[j].name = d

\* a run that aborted after adding a file and, before it, its dependency
DependenciesCommittedFirstWitness ==
    /\ pc = "raised"
    /\ \E i, j \in 1..Len(descriptor_pool) :
          /\ j < i
          /\ descriptor_pool[j].name \in Range(descriptor_pool[i].dependency)

\* C2: when add_protos_to_descriptor_pool returns normally for an acyclic
\* graph and a server that answered every request with the requested file,
\* imported_names holds every name reachable from the root protos.
ReachableNamesImported ==
    (pc = "done" /\ Acyclic /\ honest)
        => Closure(Range(proto_names)) \subseteq imported_names

\* a normal return after a fetch, with a name reached only through two edges
ReachableNamesImportedWitness ==
    /\ pc = "done" /\ Acyclic /\ honest
    /\ requests /= <<>>
    /\ \E n \in imported_names :
          /\ n \notin Range(proto_names)
          /\ \A r \in Range(proto_names) : n \notin Range(graph[r])

\* C3: the Add calls of a finished run are the post-order depth-first
\* traversal from the root protos in the order received, dependencies in
\* declared order, names already added skipped; the test server built from
\* [proto_a, proto_b] adds proto_a, proto_c, proto_e, proto_f, proto_d, proto_b.
CommitsArePostOrder ==
    pc = "done" =>
        /\ Commits = PostOrder(proto_names, {})
        /\ (graph = TestGraph /\ proto_names = <<"proto_a", "proto_b">>)
              => Commits = <<"proto_a", "proto_c", "proto_e", "proto_f", "proto_d", "proto_b">>

CommitsArePostOrderWitness ==
    /\ pc = "done"
    /\ graph = TestGraph
    /\ proto_names = <<"proto_a", "proto_b">>
    /\ Len(Commits) = 6

\* C4: no file_by_filename request is built for a name that is in
\* imported_names or reflected_names at that time, nor for a name some
\* earlier blob (a root blob or a fetched one) carried.
NeverRefetched ==
    [][requests' /= requests =>
          \A d \in Range(requests'[Len(requests')]) :
              /\ d \notin imported_names
              /\ d \notin DOMAIN reflected_names
              /\ d \notin delivered]_vars

\* a fetch that left out a dependency because it was already at hand
NeverRefetchedWitness ==
    /\ event.op = "fetch"
    /\ \E d \in Range(Top.dependencies) :
          d \notin Range(LastBatch) /\ d \in delivered

\* C5: a call of import_dependencies_then_proto for a name that an earlier
\* call imported returns without error and changes nothing: no request, no
\* Add, imported_names and reflected_names as they were.
SecondCallChangesNothing ==
    [][(AtEntry /\ Top.proto_name \in imported_names) =>
          /\ stack' = Pop
          /\ pc' = "loop" /\ error' = NoError
          /\ requests' = requests
          /\ descriptor_pool' = descriptor_pool
          /\ imported_names' = imported_names
          /\ reflected_names' = reflected_names]_vars

\* the second of two successive calls for the same root has returned
SecondCallChangesNothingWitness ==
    /\ event.op = "return"
    /\ stack = <<>>
    /\ next_root = 3
    /\ proto_names[1] = proto_names[2]
    /\ proto_names[1] \in imported_names

\* C6: a call for a name that is neither imported nor reflected raises at
\* once: nothing is requested, the name and the names that depend on it are
\* not in the descriptor pool, and no step follows the raise.
MissingProtoIsFatal ==
    [][/\ (AtEntry /\ Top.proto_name \notin imported_names
                   /\ Top.proto_name \notin DOMAIN reflected_names) =>
            /\ pc' = "raised"
            /\ error' = [kind |-> "RuntimeError", name |-> Top.proto_name]
            /\ requests' = requests
            /\ descriptor_pool' = descriptor_pool
            /\ \A k \in 1..Len(descriptor_pool) :
                   Top.proto_name \notin Closure({descriptor_pool[k].name})
       /\ pc /= "raised"]_vars

\* the server left out a requested dependency and the call for it raised,
\* after other files had been added
MissingProtoIsFatalWitness ==
    /\ pc = "raised"
    /\ error.kind = "RuntimeError"
    /\ requests /= <<>>
    /\ error.name \in Range(LastBatch)
    /\ descriptor_pool /= <<>>

\* C7: no name is added to the descriptor pool twice.
CommittedAtMostOnce ==
    \A i, j \in 1..Len(descriptor_pool) :
        i < j => descriptor_pool[i].name /= descriptor_pool[j].name

\* a finished run in which a fetch delivered a file again after it was added
CommittedAtMostOnceWitness ==
    /\ pc = "done"
    /\ imported_names \cap DOMAIN reflected_names /= {}

\* C8: whenever import_dependencies_then_proto is entered or returns, no
\* name is both in reflected_names and in imported_names.
ReflectedDisjointFromImported ==
    event.op \in {"call", "return", "import"}
        => imported_names \cap DOMAIN reflected_names = {}

(***************************************************************************)
(* Properties of the invocation.                                           *)
(***************************************************************************)
\* deadline exceeded and unavailable are the transient transport errors
IsTransient(e) == e.type = "RpcError" /\ e.code \in {"DEADLINE_EXCEEDED", "UNAVAILABLE"}

\* C9: with a method_callable that raises a transient transport error at
\* every attempt, an invocation built with max_retries = N calls it exactly
\* N + 1 times and then raises.
RetriesExactlyMaxRetries ==
    (inv_pc = "raised" /\ \A k \in 1..Len(outcomes) : IsTransient(outcomes[k]))
        => calls = max_retries + 1

\* C10: a transport error that is not transient ends the invocation at once:
\* when the first attempt raises one, the invocation has made one call and
\* has raised that error.
NonTransientNotRetried ==
    (outcomes /= <<>> /\ outcomes[1].type = "RpcError" /\ ~IsTransient(outcomes[1]))
        => /\ inv_pc = "raised"
           /\ calls = 1
           /\ inv_error = outcomes[1]

Translated == tr_entry /= "none"

\* the keys of a dict besides "@type"
NonTypeKeys(dct) == Keys(dct) \ TYPE_KEY_SET

\* the items of a dict besides the "@type" item, in order
NonTypeItems(dct) == SelectSeq(dct.v, LAMBDA item : item.key /= TYPE_KEY)

IsTagged(value) == value.t = "dict" /\ TYPE_KEY \in Keys(value)

\* the value of the one key besides "@type"
Payload(dct) == Get(dct, CHOOSE key \in NonTypeKeys(dct) : TRUE)

\* C12: a dict with "@type" and exactly one other key translates to the
\* translation of the value of that other key, be it a scalar, a list or a
\* dict, below the top level and as the top-level message; a scalar under
\* that key comes out bare.
TaggedSingleFieldUnwrapped ==
    (Translated /\ IsTagged(tr_input) /\ Cardinality(NonTypeKeys(tr_input)) = 1) =>
        /\ tr_result = get_clean_value(Payload(tr_input))
        /\ Payload(tr_input).t \in {"bool", "int", "str"} => tr_result = Payload(tr_input)
        /\ (Payload(tr_input).t = "dict" /\ ~IsTagged(Payload(tr_input))
              /\ ~IsRaised(tr_result)) =>
                 /\ tr_result.t = "dict"
                 /\ Keys(tr_result) = Keys(Payload(tr_input))
        /\ (Payload(tr_input).t = "list" /\ ~IsRaised(tr_result)) =>
                 /\ tr_result.t = "list"
                 /\ Len(tr_result.v) = Len(Payload(tr_input).v)

\* the top-level message is a tagged dict whose one field is a dict of one
\* field: the translation is that inner dict
TaggedSingleFieldUnwrappedWitness ==
    /\ tr_entry = "translate_message_to_dict"
    /\ IsTagged(tr_input)
    /\ Cardinality(NonTypeKeys(tr_input)) = 1
    /\ Payload(tr_input) = Dict(<<Item("x", Scalar("int", "1"))>>)
    /\ tr_result = Dict(<<Item("x", Scalar("int", "1"))>>)

\* C13: a dict with "@type" and two or more other keys translates to a dict
\* of exactly the other keys, in their order, each with the translation of
\* its value (and the translation raises when one of these raises).
TaggedObjectKeepsSiblings ==
    (Translated /\ IsTagged(tr_input) /\ Cardinality(NonTypeKeys(tr_input)) >= 2) =>
        LET items == NonTypeItems(tr_input)
        IN  IF \E i \in 1..Len(items) : IsRaised(get_clean_value(items[i].value))
            THEN IsRaised(tr_result)
            ELSE /\ tr_result.t = "dict"
                 /\ Len(tr_result.v) = Len(items)
                 /\ \A i \in 1..Len(items) :
                       /\ tr_result.v[i].key = items[i].key
                       /\ tr_result.v[i].value = get_clean_value(items[i].value)

\* a tagged dict of two fields, one of them a tagged dict itself, translates
\* to the dict of the two fields with the inner one translated
TaggedObjectKeepsSiblingsWitness ==
    /\ Translated
    /\ IsTagged(tr_input)
    /\ NonTypeKeys(tr_input) = {"value", "x"}
    /\ IsTagged(Get(tr_input, "value"))
    /\ Get(tr_input, "x") = Scalar("str", "abc")
    /\ tr_result.t = "dict"
    /\ Keys(tr_result) = {"value", "x"}
    /\ Get(tr_result, "value") = Scalar("int", "1")
    /\ Get(tr_result, "x") = Scalar("str", "abc")

\* result is the list of the translations of the elements of list
IsListOfTranslations(list, result) ==
    /\ result.t = "list"
    /\ Len(result.v) = Len(list.v)
    /\ \A i \in 1..Len(list.v) : result.v[i] = get_clean_value(list.v[i])

\* C14: a list translates to the list of the translations of its elements,
\* of the same length and in the same order, also for a list that is an
\* element of a list or the value of a key of a dict (and the translation
\* raises when the translation of an element raises).
ListTranslatedElementwise ==
    /\ (Translated /\ tr_input.t = "list") =>
          (IsRaised(tr_result) <=>
              \E i \in 1..Len(tr_input.v) : IsRaised(get_clean_value(tr_input.v[i])))
    /\ (Translated /\ ~IsRaised(tr_result)) =>
        /\ tr_input.t = "list" =>
              /\ IsListOfTranslations(tr_input, tr_result)
              /\ \A i \in 1..Len(tr_input.v) :
                    tr_input.v[i].t = "list" =>
                        IsListOfTranslations(tr_input.v[i], tr_result.v[i])
        /\ (tr_input.t = "dict" /\ ~IsFlatAnyType(Keys(tr_input))) =>
              \A key \in NonTypeKeys(tr_input) :
                    Get(tr_input, key).t = "list" =>
                        IsListOfTranslations(Get(tr_input, key), Get(tr_result, key))

\* a list of two elements that translate to different values, the first of
\* them changed by the translation
ListTranslatedElementwiseWitness ==
    /\ Translated
    /\ tr_input.t = "list"
    /\ Len(tr_input.v) = 2
    /\ IsTagged(tr_input.v[1])
    /\ tr_result = List(<<Scalar("int", "1"), Scalar("str", "abc")>>)

RECURSIVE IsPlain(_)

\* value is built from bool, int and str scalars, lists and dicts without
\* an "@type" key
IsPlain(value) ==
    \/ value.t \in {"bool", "int", "str"}
    \/ value.t = "list" /\ \A i \in 1..Len(value.v) : IsPlain(value.v[i])
    \/ /\ value.t = "dict"
       /\ ~IsTagged(value)
       /\ \A i \in 1..Len(value.v) : IsPlain(value.v[i].value)

\* C15: a value built from scalars, lists and dicts without "@type" keys
\* translates to itself.
PlainValueUnchanged == (Translated /\ IsPlain(tr_input)) => tr_result = tr_input

\* a dict of two keys that holds a bool and a list is returned as it is
PlainValueUnchangedWitness ==
    /\ tr_entry = "translate_message_to_dict"
    /\ IsPlain(tr_input)
    /\ NonTypeKeys(tr_input) = {"value", "x"}
    /\ Get(tr_input, "value") = Scalar("bool", "True")
    /\ Get(tr_input, "x") = List(<<Scalar("int", "1")>>)
    /\ tr_result = tr_input

RECURSIVE ReachesOtherType(_)

\* the input, an element of a list or the value of a key other than "@type"
\* is no bool, int, float, str, list or dict
ReachesOtherType(value) ==
    \/ value.t \notin {"bool", "int", "float", "str", "list", "dict"}
    \/ value.t = "list" /\ \E i \in 1..Len(value.v) : ReachesOtherType(value.v[i])
    \/ /\ value.t = "dict"
       /\ \E i \in 1..Len(value.v) :
             value.v[i].key /= TYPE_KEY /\ ReachesOtherType(value.v[i].value)

\* C16: when the input, a list element or the value of a key other than
\* "@type" is of no accepted type, the translation raises AssertionError and
\* returns nothing.
OtherTypeIsFatal ==
    (Translated /\ ReachesOtherType(tr_input)) => tr_result = Raise("AssertionError")

\* a None two levels down, in a list under the one field of a tagged dict
OtherTypeIsFatalWitness ==
    /\ Translated
    /\ IsTagged(tr_input)
    /\ NonTypeKeys(tr_input) = {"value"}
    /\ Get(tr_input, "value") = List(<<Scalar("int", "1"), None>>)
    /\ tr_result = Raise("AssertionError")

(***************************************************************************)
(* Properties of a failing reflection stream.                              *)
(***************************************************************************)
\* C19: once a request of the discovery has failed, the build has ended with
\* the error: build_database_from_stub returns no descriptor pool, so the
\* files added before the failure reach no caller.
FailedDiscoveryReturnsNothing ==
    error.kind = "RpcError" =>
        /\ pc = "raised"
        /\ database = NoDatabase

\* the stream fails after files were added to the descriptor pool
FailedDiscoveryReturnsNothingWitness ==
    /\ error.kind = "RpcError"
    /\ pc = "raised"
    /\ descriptor_pool /= <<>>
    /\ imported_names /= {}
    /\ database = NoDatabase

\* C20: the step on which the reflection stream raises sent its requests
\* once and ends the build with the grpc.RpcError of the stream, its status
\* code unchanged; no step follows it, so no request is sent again.
TransportErrorPropagatesUnchanged ==
    [][/\ event'.op = "stream_error" =>
            /\ pc' = "raised"
            /\ error' = [kind |-> "RpcError", name |-> event'.name]
            /\ Len(requests') <= Len(requests) + 1
            /\ UNCHANGED <<descriptor_pool, database>>
       /\ event.op /= "stream_error"]_vars

\* the second batch of file_by_filename requests of a build fails
TransportErrorPropagatesUnchangedWitness ==
    /\ event = [op |-> "stream_error", name |-> "UNAVAILABLE"]
    /\ pc = "raised"
    /\ error = [kind |-> "RpcError", name |-> "UNAVAILABLE"]
    /\ Len(requests) = 2

(***************************************************************************)
(* Properties of make_json_grpc_client.                                    *)
(***************************************************************************)
\* the names of the methods the server declares for the service
DeclaredMethods(name) == {services[name][k] : k \in 1..Len(services[name])}

\* C17: the mapping make_json_grpc_client returns has exactly the names of
\* the methods of the requested service as keys, each mapped to the
\* invocation of that method of that service.
ClientHasExactlyTheMethods ==
    cl_pc = "returned" =>
        /\ service_name \in DOMAIN services
        /\ DOMAIN client = DeclaredMethods(service_name)
        /\ \A name \in DOMAIN client :
              /\ client[name].method = <<service_name, name>>
              /\ client[name].input_prototype = MethodDescriptor(name).input_type
              /\ client[name].max_retries = MAX_RETRIES

\* a client of two methods, made while the server declares another service
ClientHasExactlyTheMethodsWitness ==
    /\ cl_pc = "returned"
    /\ DOMAIN services = ClientServices
    /\ Cardinality(DOMAIN client) = 2
    /\ DOMAIN client = DeclaredMethods(service_name)
    /\ \E other \in ClientServices :
          other /= service_name /\ DeclaredMethods(other) /= DeclaredMethods(service_name)

\* C18: for a service the server does not declare, the one call of
\* FindServiceByName raises a KeyError that holds the requested name; no
\* method is mounted and no mapping is returned.
UnknownServiceRaises ==
    service_name \notin DOMAIN services =>
        /\ cl_pc \notin {"mount", "returned"}
        /\ DOMAIN client = {}
        /\ lookups <= 1
        /\ lookups = 1 =>
              /\ cl_pc = "raised"
              /\ cl_error = [type |-> "KeyError", arg |-> service_name]

\* the server declares a service with methods, another one is asked for
UnknownServiceRaisesWitness ==
    /\ service_name \notin DOMAIN services
    /\ \E name \in DOMAIN services : Len(services[name]) > 0
    /\ cl_pc = "raised"
    /\ cl_error = [type |-> "KeyError", arg |-> service_name]
    /\ lookups = 1

(***************************************************************************)
(* Properties of get_proto_bytes_for_requests.                             *)
(***************************************************************************)
RECURSIVE BlobsBefore(_, _)

\* how many files the responses before the k-th carry together
BlobsBefore(responses, k) ==
    IF k <= 1 THEN 0 ELSE Len(responses[k - 1]) + BlobsBefore(responses, k - 1)

\* C22: the list returned holds the files of all responses and nothing else:
\* the i-th file of the k-th response stands right after the files of the
\* responses before it and the files before it in its response; with no
\* request, and so no response, the list is empty.
FlatListOfAllBlobs ==
    fetch_pc = "returned" =>
        LET responses == file_descriptors_responses
        IN  /\ Len(proto_bytes) = BlobsBefore(responses, Len(responses) + 1)
            /\ \A k \in 1..Len(responses) :
                  \A i \in 1..Len(responses[k]) :
                     proto_bytes[BlobsBefore(responses, k) + i] = responses[k][i]
            /\ file_requests = <<>> => proto_bytes = <<>>

\* a response of two different files, then a response of one file
FlatListOfAllBlobsWitness ==
    /\ fetch_pc = "returned"
    /\ Len(file_descriptors_responses) = 2
    /\ Len(file_descriptors_responses[1]) = 2
    /\ file_descriptors_responses[1][1] /= file_descriptors_responses[1][2]
    /\ Len(file_descriptors_responses[2]) = 1
    /\ Len(proto_bytes) = 3
    /\ proto_bytes[3] = file_descriptors_responses[2][1]

(***************************************************************************)
(* The requests of a run of build_database_from_stub.                      *)
(***************************************************************************)
\* the dependencies that are neither imported nor reflected, in declared order
MissingDependencies(dependencies) ==
    SelectSeq(dependencies,
              LAMBDA d : d \notin imported_names /\ d \notin DOMAIN reflected_names)

FileByFilenameBatch(names) ==
    [k \in 1..Len(names) |-> [kind |-> "file_by_filename", arg |-> names[k]]]

\* C26: a call sends file_by_filename requests only at its entry, where it
\* sends one batch with one request per missing dependency, in declared
\* order, and only when a dependency is missing; when the batch has returned
\* every file received with it for the first time is in reflected_names,
\* where every file stands under its own name, and the call is at its loop
\* over the dependencies, to which it comes without a batch
\* only when no dependency is missing; a call in that loop never sends, and
\* only a call in that loop calls for a dependency.
OneBatchPerCall ==
    [][/\ (pc = "loop" /\ sent' /= sent) =>
            /\ AtEntry
            /\ LET missing == MissingDependencies(reflected_names[Top.proto_name].dependency)
               IN /\ missing /= <<>>
                  /\ sent' = Append(sent, FileByFilenameBatch(missing))
            /\ pc' = "loop" =>
                  /\ event'.op = "fetch"
                  /\ Len(stack') = Len(stack)
                  /\ Top'.pc = "deps"
                  /\ \A name \in delivered' \ delivered :
                        /\ name \in DOMAIN reflected_names'
                        /\ reflected_names'[name].dependency = graph[name]
                  /\ \A name \in DOMAIN reflected_names' :
                        reflected_names'[name].name = name
       /\ (AtEntry /\ pc' = "loop" /\ Len(stack') = Len(stack) /\ Top'.pc = "deps"
           /\ sent' = sent) =>
              MissingDependencies(reflected_names[Top.proto_name].dependency) = <<>>
       /\ \A k \in 1..Len(stack) :
             (k <= Len(stack') /\ stack[k].pc = "deps") => stack'[k].pc = "deps"
       /\ (stack /= <<>> /\ Len(stack') > Len(stack)) =>
             /\ Top.pc = "deps"
             /\ sent' = sent]_vars

\* a batch of two requests has returned two files
OneBatchPerCallWitness ==
    /\ event.op = "fetch"
    /\ Len(sent[Len(sent)]) = 2
    /\ sent[Len(sent)][1].arg /= sent[Len(sent)][2].arg
    /\ \A k \in 1..2 : sent[Len(sent)][k].arg \in DOMAIN reflected_names
    /\ Top.pc = "deps"

\* C27: the first batch sent is the list_services request alone, the second
\* holds one file_containing_symbol request per listed service in the listed
\* order, every later batch holds file_by_filename requests only; nothing is
\* added to the descriptor pool before the second batch has returned the
\* root files.
DiscoveryRequestOrder ==
    /\ pc = "list" => sent = <<>>
    /\ pc = "symbols" => Len(sent) = 1
    /\ sent /= <<>> => sent[1] = <<[kind |-> "list_services", arg |-> "services"]>>
    /\ Len(sent) >= 2 =>
          sent[2] = [k \in 1..Len(service_names) |->
                        [kind |-> "file_containing_symbol", arg |-> service_names[k]]]
    /\ \A j \in 3..Len(sent) :
          /\ sent[j] /= <<>>
          /\ \A k \in 1..Len(sent[j]) : sent[j][k].kind = "file_by_filename"
    /\ descriptor_pool /= <<>> =>
          /\ Len(sent) >= 2
          /\ pc \in {"loop", "done", "raised"}
          /\ proto_names /= <<>>

\* two services were listed, a dependency was asked for and a file imported
DiscoveryRequestOrderWitness ==
    /\ Len(service_names) >= 2
    /\ Len(sent) >= 3
    /\ descriptor_pool /= <<>>

\* build_database_from_stub has returned or raised
Terminated == pc \in {"done", "raised"}

\* C24: when no file depends on itself through any chain of dependencies and
\* the server answers every request with the requested file, the run comes
\* to its end, by a return or a raise; up to there it has sent at most one
\* batch of file_by_filename requests per file and added at most every file
\* once, and the depth of the recursion was never the reason of the end.
AcyclicDiscoveryTerminates ==
    Acyclic =>
        /\ <>(Terminated \/ ~honest)
        /\ [](honest =>
                /\ Len(requests) <= Cardinality(Files)
                /\ Len(descriptor_pool) <= Cardinality(Files)
                /\ error.kind /= "RecursionError")

\* a run over a chain of three files that sent two batches has returned
AcyclicDiscoveryTerminatesWitness ==
    /\ Acyclic
    /\ honest
    /\ pc = "done"
    /\ Len(requests) >= 2
    /\ Len(descriptor_pool) >= 3

\* the file depends on itself, directly or through other files
OnCycle(name) == name \in Closure(Range(graph[name]))

\* a file that depends on itself is a root file or a dependency of one
CycleReachable == \E name \in Closure(BlobNames(root_blobs)) : OnCycle(name)

\* C25: no file that depends on itself is ever added to the descriptor pool;
\* when such a file is reachable from a root file the run never returns a
\* database, and with a server that answers every request and a stream that
\* never fails it ends only when the recursion is as deep as the interpreter
\* allows, with a file on the stack of calls more than once.
CycleRecursesWithoutBound ==
    /\ \A k \in 1..Len(descriptor_pool) : ~OnCycle(descriptor_pool[k].name)
    /\ CycleReachable =>
          /\ pc /= "done"
          /\ database = NoDatabase
          /\ (pc = "raised" /\ honest /\ error.kind /= "RpcError") =>
                /\ error.kind = "RecursionError"
                /\ Len(stack) = RecursionLimit
                /\ \E i, j \in 1..Len(stack) :
                      i < j /\ stack[i].proto_name = stack[j].proto_name

\* a root file without a cycle was added, then the recursion over the cycle
\* of the next root file was cut off
CycleRecursesWithoutBoundWitness ==
    /\ CycleReachable
    /\ honest
    /\ pc = "raised"
    /\ error.kind = "RecursionError"
    /\ descriptor_pool /= <<>>
    /\ \E name \in Files : OnCycle(name) /\ graph[name] /= <<name>>

\* C28: build_database_from_channel is called once by the time FindServiceByName
\* is reached, and never again: a call of an invocation of the returned
\* client calls its unary method on the channel and changes neither the
\* count of the builds, nor the pool, nor the client, nor anything of a run
\* of build_database_from_stub.
DiscoveryRunsOnce ==
    [][/\ cl_pc' /= "start" => builds' = 1
       /\ cl_pc = "returned" =>
             /\ cl_pc' = "returned"
             /\ UNCHANGED <<builds, lookups, services, client, service_descriptor>>
             /\ UNCHANGED <<descriptor_pool, imported_names, reflected_names, sent,
                            requests, database>>
             /\ Len(unary_calls') = Len(unary_calls) + 1
             /\ \E method_name \in DOMAIN client :
                   unary_calls'[Len(unary_calls')] = <<service_name, method_name>>]_vars

\* two different invocations of the returned client were called
DiscoveryRunsOnceWitness ==
    /\ cl_pc = "returned"
    /\ builds = 1
    /\ Len(unary_calls) = 2
    /\ unary_calls[1] /= unary_calls[2]

\* C30: with a wrapped function that raises an exception of
\* exceptions_to_retry at every attempt, a stub made with num_retries = N
\* makes N + 1 attempts before the exception reaches the caller.
RetryingMiddlewareRetriesNumRetries ==
    (/\ retry_pc = "raised"
     /\ \A k \in 1..Len(retry_outcomes) : retry_outcomes[k] \in exceptions_to_retry)
        => retry_tries = num_retries + 1

(***************************************************************************)
(* Properties of the translation of a failed call.                         *)
(***************************************************************************)
\* the positions of the entries of the metadata with this key and such a value
EntriesOf(key, values) ==
    {k \in 1..Len(exc.trailing_metadata) :
        exc.trailing_metadata[k][1] = key /\ exc.trailing_metadata[k][2] \in values}

Last(S) == CHOOSE k \in S : \A j \in S : j <= k

\* the integer error_code of the metadata: the last entry that is an integer
ErrorCode ==
    LET entries == EntriesOf("error_code", {"-1", "-2"})
    IN  IF entries = {} THEN CodeNone
        ELSE IF exc.trailing_metadata[Last(entries)][2] = "-1"
             THEN CodeOf(0 - 1) ELSE CodeOf(0 - 2)

\* the error_details of the metadata, "[]" when it has none
ErrorDetails ==
    LET entries == EntriesOf("error_details", MetadataValues)
    IN  IF entries = {} THEN "[]" ELSE exc.trailing_metadata[Last(entries)][2]

IsJsonArray(details) == details \in {"[]", "[\"some details\"]"}

\* the elements of the JSON array of error_details
DecodedArguments ==
    IF ErrorDetails = "[\"some details\"]" THEN <<"some details">> ELSE <<>>

\* the class the translation function of the client has for the error_code
DomainClass ==
    IF code_to_exception_class_func = "None" THEN "None"
    ELSE ExceptionClassFor(code_to_exception_class_func, ErrorCode)

\* the status codes client_side_middleware turns into built-in exceptions
MappedStatus ==
    [DEADLINE_EXCEEDED |-> "TimeoutError", UNIMPLEMENTED |-> "NotImplementedError",
     UNAVAILABLE |-> "ConnectionRefusedError"]

\* C23: as stated: a failed call with trailing metadata through a client with
\* a translation function raises the class the function has for the integer
\* error_code, made with the arguments decoded from error_details; when the
\* function has no class for the code, or the client has no function, the
\* caller gets the transport error itself.
TransportErrorTranslated ==
    err_pc = "raised" =>
        IF DomainClass /= "None"
        THEN exc.trailing_metadata /= <<>> =>
                /\ err_raised.class = DomainClass
                /\ err_raised.args = DecodedArguments
        ELSE /\ err_raised.class = "RpcError"
             /\ err_raised.of = exc

\* C23: amended: through client_side_middleware a call that failed with
\* deadline exceeded, unimplemented or unavailable raises TimeoutError,
\* NotImplementedError or ConnectionRefusedError, whatever the metadata and
\* the function; any other failed call raises the class the function has
\* for the integer error_code, made with the elements of error_details when
\* that is a JSON array (no arguments when there is no error_details), and
\* the transport error itself when the function has no class for the code
\* or the client has no function.
TransportErrorTranslatedUnlessStatusMapped ==
    err_pc = "raised" =>
        IF err_module = "client_side_middleware" /\ exc.code \in DOMAIN MappedStatus
        THEN /\ err_raised.class = MappedStatus[exc.code]
             /\ err_raised.args = <<>>
        ELSE IF DomainClass /= "None"
             THEN IsJsonArray(ErrorDetails) =>
                     /\ err_raised.class = DomainClass
                     /\ err_raised.args = DecodedArguments
             ELSE /\ err_raised.class = "RpcError"
                  /\ err_raised.of = exc

\* the error of the test through the middleware: code -1, details of one
\* argument, raised as ExceptionOne
TransportErrorTranslatedUnlessStatusMappedWitness ==
    /\ err_pc = "raised"
    /\ err_module = "client_side_middleware"
    /\ exc.code = "INTERNAL"
    /\ code_to_exception_class_func = "code_to_class"
    /\ exc.trailing_metadata = <<<<"error_code", "-1">>, <<"error_details", "[\"some details\"]">>>>
    /\ err_raised = Exception("ExceptionOne", <<"some details">>)

(***************************************************************************)
(* Properties of calls of invocations that run at the same time.           *)
(***************************************************************************)
\* everything of call c, now and after the step
CallState(c) ==
    <<call_input[c], call_method[c], call_pc[c], input_message[c], call_request[c],
      call_response[c], call_tries[c], call_rpcs[c], call_result[c], call_error[c]>>

CallStateAfter(c) ==
    <<call_input'[c], call_method'[c], call_pc'[c], input_message'[c], call_request'[c],
      call_response'[c], call_tries'[c], call_rpcs'[c], call_result'[c], call_error'[c]>>

\* the message has a field for the name in the input dict of call c
CanPopulate(c) == call_input[c][1].key \in {"int32Value", "stringValue"}

\* a message with nothing set but the field of the input dict of call c
Populated(c) ==
    IF call_input[c][1].key = "int32Value"
    THEN Message(call_input[c][1].value, "")
    ELSE Message("0", call_input[c][1].value)

\* C21: a step of a call changes nothing of any other call; every attempt
\* counts for its own call only and sends a message with nothing set but
\* what the input dict of its own call names; a call returns the
\* translation of a response to its own request, and raises what its own
\* input or its own last transport error makes it raise.
ConcurrentCallsDoNotInterfere ==
    [][\A c \in Callers :
          CallStateAfter(c) /= CallState(c) =>
             /\ \A d \in Callers \ {c} : CallStateAfter(d) = CallState(d)
             /\ call_tries'[c] \in {call_tries[c], call_tries[c] + 1}
             /\ (call_tries'[c] = call_tries[c] + 1 /\ CanPopulate(c)) =>
                   /\ input_message'[c] = Populated(c)
                   /\ call_request'[c] = Populated(c)
             /\ call_pc'[c] = "returned" =>
                   /\ call_response'[c] \in ResponsesTo(call_method[c], Populated(c))
                   /\ call_result'[c] =
                         translate_message_to_dict(MessageToDict(call_response'[c]))
             /\ call_pc'[c] = "raised" =>
                   \/ /\ ~CanPopulate(c)
                      /\ call_error'[c] = OtherError("ParseError")
                      /\ call_tries'[c] = 1
                   \/ /\ CanPopulate(c)
                      /\ call_error'[c].type = "RpcError"
                      /\ call_tries'[c] = MAX_RETRIES]_vars

\* two calls with different inputs have their requests on the channel at the
\* same time, the first at its second attempt and the second at its first
ConcurrentCallsDoNotInterfereWitness ==
    /\ call_pc[1] = "called"
    /\ call_pc[2] = "called"
    /\ call_tries[1] = 2
    /\ call_tries[2] = 1
    /\ CanPopulate(1)
    /\ CanPopulate(2)
    /\ call_input[1] /= call_input[2]
    /\ call_request[1] /= call_request[2]

\* C29: as stated: every attempt of a call is one call of method_callable,
\* and a call that has returned has returned the translation of the response
\* to the message populated from its input dict.
EveryAttemptIsOneRpc ==
    \A c \in Callers :
       /\ call_rpcs[c] = call_tries[c]
       /\ call_pc[c] = "returned" =>
             /\ call_request[c] = Populated(c)
             /\ call_result[c] = translate_message_to_dict(MessageToDict(call_response[c]))

\* C29: amended: an attempt whose input dict populates the message calls
\* method_callable once, an attempt whose input dict does not calls it not
\* at all and ends the call; a call returns only from a call of
\* method_callable of its own, the translation of the response to the message
\* populated from its input dict, and then has called method_callable as
\* often as it made attempts; a call that has returned or raised does
\* nothing more.
FirstSuccessEndsInvocation ==
    [][\A c \in Callers :
          /\ call_pc[c] \in {"returned", "raised"} => CallStateAfter(c) = CallState(c)
          /\ call_tries'[c] = call_tries[c] + 1 =>
                IF CanPopulate(c)
                THEN /\ call_rpcs'[c] = call_rpcs[c] + 1
                     /\ call_pc'[c] = "called"
                     /\ call_request'[c] = Populated(c)
                ELSE /\ call_rpcs'[c] = call_rpcs[c]
                     /\ call_pc'[c] = "raised"
          /\ call_tries'[c] = call_tries[c] => call_rpcs'[c] = call_rpcs[c]
          /\ (call_pc'[c] = "returned" /\ call_pc[c] /= "returned") =>
                /\ call_pc[c] = "called"
                /\ call_response'[c] \in ResponsesTo(call_method[c], call_request[c])
                /\ call_result'[c] =
                      translate_message_to_dict(MessageToDict(call_response'[c]))
                /\ call_rpcs'[c] = call_tries'[c]
                /\ call_rpcs'[c] >= 1]_vars

\* two calls of the same invocation with the same input have returned
\* different dicts, the first from its second attempt
FirstSuccessEndsInvocationWitness ==
    /\ call_pc[1] = "returned"
    /\ call_pc[2] = "returned"
    /\ call_input[1] = call_input[2]
    /\ call_method[1] = call_method[2]
    /\ call_result[1] /= call_result[2]
    /\ call_tries[1] = 2
    /\ call_rpcs[1] = 2
    /\ call_rpcs[2] = 1

(***************************************************************************)
(* Properties of the result of the translation as a whole.                 *)
(***************************************************************************)
RECURSIVE ContainsTypeKey(_)

\* some dict of the value, at any depth, has the key "@type"
ContainsTypeKey(value) ==
    IF value.t \in {"dict", "list"}
    THEN \/ value.t = "dict" /\ TYPE_KEY \in Keys(value)
         \/ \E i \in 1..Len(value.v) :
               ContainsTypeKey(IF value.t = "dict" THEN value.v[i].value ELSE value.v[i])
    ELSE FALSE

\* C34: whenever the translation returns, no dict of the result, at any
\* depth, has the key "@type"
ResultHasNoTypeKey == (Translated /\ ~IsRaised(tr_result)) => ~ContainsTypeKey(tr_result)

\* a list of one tagged dict of two fields comes back as the list of the
\* dict of the same fields without the tag
ResultHasNoTypeKeyWitness ==
    /\ tr_entry = "_get_clean_value"
    /\ tr_input.t = "list"
    /\ Len(tr_input.v) = 1
    /\ IsTagged(tr_input.v[1])
    /\ NonTypeKeys(tr_input.v[1]) = {"value", "x"}
    /\ tr_result.t = "list"
    /\ Keys(tr_result.v[1]) = {"value", "x"}
    /\ ~ContainsTypeKey(tr_result)

\* C35: whenever the translation returns, translating its result again
\* returns the same result
TranslateIsIdempotent ==
    (Translated /\ ~IsRaised(tr_result)) => get_clean_value(tr_result) = tr_result

\* a tagged dict whose payload is a tagged dict of one field: both are
\* unwrapped at once, and the scalar that is left translates to itself
TranslateIsIdempotentWitness ==
    /\ Translated
    /\ IsTagged(tr_input)
    /\ NonTypeKeys(tr_input) = {"value"}
    /\ IsTagged(Get(tr_input, "value"))
    /\ NonTypeKeys(Get(tr_input, "value")) = {"x"}
    /\ tr_result = Scalar("str", "abc")
    /\ get_clean_value(tr_result) = tr_result

\* a dict whose only key is "@type"
IsTagOnly(value) == value.t = "dict" /\ Keys(value) = TYPE_KEY_SET

\* C36: a dict whose only key is "@type" translates to the empty dict, at
\* the top and as an element of a list
TagOnlyDictBecomesEmpty ==
    /\ (Translated /\ IsTagOnly(tr_input)) => tr_result = Dict(<<>>)
    /\ (Translated /\ tr_input.t = "list" /\ ~IsRaised(tr_result)) =>
          \A i \in 1..Len(tr_input.v) : IsTagOnly(tr_input.v[i]) => tr_result.v[i] = Dict(<<>>)

TagOnlyDictBecomesEmptyWitness ==
    /\ tr_entry = "translate_message_to_dict"
    /\ IsTagOnly(tr_input)
    /\ tr_result = Dict(<<>>)

RECURSIVE DictsOf(_)

\* every dict of a value, the value itself included
DictsOf(value) ==
    IF value.t = "dict"
    THEN {value} \cup UNION {DictsOf(value.v[i].value) : i \in 1..Len(value.v)}
    ELSE IF value.t = "list" THEN UNION {DictsOf(value.v[i]) : i \in 1..Len(value.v)}
    ELSE {}

\* C39: in every dict of the input that takes the flat-any branch exactly
\* one key besides "@type" remains, and the translation never raises
\* ValueError
ValueErrorGuardNeverFires ==
    /\ \A dct \in DictsOf(tr_input) :
          IsFlatAnyType(Keys(dct)) => Cardinality(Keys(dct) \ TYPE_KEY_SET) = 1
    /\ Translated => tr_result /= Raise("ValueError")

\* the flat-any branch is taken at the top and again in the payload
ValueErrorGuardNeverFiresWitness ==
    /\ Translated
    /\ tr_input.t = "dict"
    /\ Keys(tr_input) = {TYPE_KEY, "x"}
    /\ IsFlatAnyType(Keys(tr_input))
    /\ Get(tr_input, "x").t = "dict"
    /\ IsFlatAnyType(Keys(Get(tr_input, "x")))
    /\ ~IsRaised(tr_result)

(***************************************************************************)
(* Properties of the generator wrapper.                                    *)
(***************************************************************************)
\* C33: what the wrapper has yielded is always the items the wrapped stream
\* has yielded, in their order; when an exception leaves the wrapper every
\* item of the stream was yielded before, and the exception is the
\* translation of the stream's grpc.RpcError; a stream that ends is yielded
\* whole and the wrapper ends
StreamItemsThenTranslatedError ==
    /\ gen_yielded = SubSeq(stream.items, 1, gen_pos)
    /\ gen_pc = "raised" =>
          /\ gen_yielded = stream.items
          /\ stream.end /= "returns"
          /\ stream.end = "RpcError" =>
                gen_raised =
                    client_wrapper_raise_exception_from_grpc_exception(gen_func, stream.exc)
    /\ gen_pc = "exhausted" =>
          /\ stream.end = "returns"
          /\ gen_yielded = stream.items
          /\ gen_raised = NoException
    /\ gen_pc /= "raised" => gen_raised = NoException

\* the stream of the tests with two more items: three items and then an
\* error of code -1, which leaves the wrapper as ExceptionOne after the items
StreamItemsThenTranslatedErrorWitness ==
    /\ gen_pc = "raised"
    /\ stream.items = <<0, 1, 0>>
    /\ stream.end = "RpcError"
    /\ stream.exc.trailing_metadata = <<<<"error_code", "-1">>>>
    /\ gen_func = "code_to_class"
    /\ gen_yielded = <<0, 1, 0>>
    /\ gen_raised = Exception("ExceptionOne", <<>>)

(***************************************************************************)
(* Properties of a call through the interceptors of make_grpc_client.      *)
(***************************************************************************)
\* make_grpc_client was called with its defaults
DefaultConfiguration ==
    /\ chain_func = "None"
    /\ num_retries = DEFAULT_NUM_RETRIES
    /\ exceptions_to_retry = DefaultExceptionsToRetry

ChainErrorCodes ==
    {chain_exc.trailing_metadata[k][2] :
        k \in {i \in 1..Len(chain_exc.trailing_metadata) :
                  chain_exc.trailing_metadata[i][1] = "error_code"}}

ChainHasDetails ==
    \E k \in 1..Len(chain_exc.trailing_metadata) :
        chain_exc.trailing_metadata[k][1] = "error_details"

\* C32: a call that failed with DEADLINE_EXCEEDED, UNIMPLEMENTED or
\* UNAVAILABLE reaches the caller as TimeoutError, NotImplementedError or
\* ConnectionRefusedError made without arguments, whatever the metadata and
\* the translation function; with any other status the caller gets none of
\* the three but what error_code and error_details make of the error: the
\* transport error itself without a function or without a class for the
\* code, the class of the code otherwise.
StatusMappedBeforeTranslation ==
    chain_pc = "raised" =>
        IF chain_exc.code \in DOMAIN MappedStatus
        THEN chain_raised = Exception(MappedStatus[chain_exc.code], <<>>)
        ELSE /\ chain_raised.class \notin {MappedStatus[c] : c \in DOMAIN MappedStatus}
             /\ chain_func = "None" => chain_raised = Reraised(chain_exc)
             /\ (chain_func = "code_to_class" /\ "-1" \notin ChainErrorCodes) =>
                   chain_raised = Reraised(chain_exc)
             /\ (chain_func /= "None" /\ ChainErrorCodes = {"-1"} /\ ~ChainHasDetails) =>
                   chain_raised = Exception("ExceptionOne", <<>>)
             /\ (chain_func = "code_to_any_class" /\ "-1" \notin ChainErrorCodes
                   /\ ~ChainHasDetails) =>
                   chain_raised = Exception("ExceptionTwo", <<>>)

\* an unavailable server whose metadata names the class of the tests: the
\* caller gets ConnectionRefusedError all the same
StatusMappedBeforeTranslationWitness ==
    /\ chain_pc = "raised"
    /\ chain_func = "code_to_class"
    /\ chain_exc.code = "UNAVAILABLE"
    /\ chain_exc.trailing_metadata =
          <<<<"error_code", "-1">>, <<"error_details", "[\"some details\"]">>>>
    /\ chain_raised = Exception("ConnectionRefusedError", <<>>)
    /\ underlying_calls = 1

(***************************************************************************)
(* Properties of what a run of build_database_from_stub imports and asks   *)
(* for.                                                                    *)
(***************************************************************************)
RECURSIVE ReachableFrom(_)

\* the names reached from the names S through the dependency lists
ReachableFrom(S) ==
    LET T == S \cup UNION {Range(graph[n]) : n \in S}
    IN  IF T = S THEN S ELSE ReachableFrom(T)

\* C37: every name added to the descriptor pool is reached from the names of
\* the root blobs through dependency lists, whatever else the server sent;
\* when the run returns, every name added is a root blob or a dependency of
\* a name added; with no root blobs nothing is added and no file_by_filename
\* request is sent.
OnlyReachableNamesImported ==
    /\ imported_names \subseteq ReachableFrom(BlobNames(root_blobs))
    /\ BlobNames(descriptor_pool) \subseteq ReachableFrom(BlobNames(root_blobs))
    /\ pc = "done" =>
          \A n \in imported_names :
             \/ n \in BlobNames(root_blobs)
             \/ \E m \in imported_names : n \in Range(graph[m])
    /\ root_blobs = <<>> =>
          /\ imported_names = {}
          /\ descriptor_pool = <<>>
          /\ requests = <<>>
          /\ \A k \in 1..Len(sent) : \A j \in 1..Len(sent[k]) :
                sent[k][j].kind /= "file_by_filename"

\* the run returned after the server sent a file that nothing reached from
\* the root blobs depends on: the file was not added to the pool
OnlyReachableNamesImportedWitness ==
    /\ pc = "done"
    /\ database.returned
    /\ imported_names /= {}
    /\ \E n \in delivered :
          /\ n \notin ReachableFrom(BlobNames(root_blobs))
          /\ n \notin imported_names

\* no dependency list of the server names a file twice
NoRepeatedDependency ==
    \A n \in Files : \A i, j \in 1..Len(graph[n]) : graph[n][i] = graph[n][j] => i = j

\* the names of all file_by_filename requests sent so far, in order
RequestedNames == Flatten(requests)

\* C38: on a server whose dependency lists name no file twice and that has
\* answered every file_by_filename request with the file asked for, no name
\* was asked for twice.
NoFileRequestedTwice ==
    (NoRepeatedDependency /\ honest) =>
        \A i, j \in 1..Len(RequestedNames) : RequestedNames[i] = RequestedNames[j] => i = j

\* the run returned after two imported files with one dependency in common,
\* which was asked for once
NoFileRequestedTwiceWitness ==
    /\ pc = "done"
    /\ database.returned
    /\ NoRepeatedDependency
    /\ honest
    /\ \E m1, m2 \in imported_names : \E n \in Range(RequestedNames) :
          /\ m1 /= m2
          /\ n \notin {m1, m2}
          /\ n \in Range(graph[m1]) \cap Range(graph[m2])
          /\ n \in imported_names
====
